---- MODULE Spec2Model ----
(***************************************************************************)
(* Plan Execution Engine of BetterAIAgent: executePlanSteps                *)
(* (src/src/background/planExecutor.ts) driving each step through          *)
(* withRetry (src/src/background/retryUtils.ts), the failure-recovery      *)
(* callback and the fallback candidates, and the progress messages it      *)
(* sends with chrome.runtime.sendMessage.                                  *)
(*                                                                         *)
(* An Error object is modelled by its message (a string); a JavaScript     *)
(* value that may be undefined and is not a string is modelled as a        *)
(* sequence of length 0 (undefined) or 1 (the value).                      *)
(***************************************************************************)
EXTENDS Integers, Sequences, FiniteSets, TLC

(* ------------------------------ bounds -------------------------------- *)

\* Longest plan the model executes.
MaxSteps == 2

\* Largest explicit retryCount a step carries (a step may also carry none).
MaxRetryCount == 1

\* Longest candidate list the recovery callback returns.
MaxCandidates == 2

\* Most executeSingleAction calls followed in the model of the active tab.
MaxCalls == 3

\* Most tabs that exist in the model of the active tab.
MaxTabs == 3

\* Longest candidate list the suggestion service resolves to.
MaxSuggested == 2

\* Most elements of the JSON array in a response of the suggestion service.
MaxElements == 2

\* Most elements in the document the resolver is run on.
MaxDocElements == 2

\* Most elements in a shadow root, and in the document of a frame the handlers
\* are run on.
MaxShadowElements == 1

\* Deepest nesting of shadow roots in a document.
MaxShadowDepth == 2

\* Largest retryCount of a step whose back-off waits are followed.
MaxAttempts == 4

\* Most candidates the suggestion service returns for one failure.
MaxReturned == 4

(* ----------------------------- constants ------------------------------ *)

MAX_STEP_RETRIES == 3

RETRY_DELAY_MS == 1000

\* setTimeout(resolve, 500) of handleNavigate
NAVIGATE_SETTLE_MS == 500

\* the safety timeout of handleNavigate
NAVIGATE_TIMEOUT_MS == 10000

\* JavaScript undefined, for a value that is otherwise a string.
Undefined == "<undefined>"

\* JavaScript undefined / a present value, for a value that is not a string.
None == <<>>
Some(x) == <<x>>

\* Messages of the errors an action invocation can throw.
Errors == {"e1", "e2"}

\* The fallback candidate steps the suggestion service can return.
Candidates == {"c1", "c2"}

\* step.retryCount: absent, or any number the plan producer wrote, below
\* zero included (nothing validates it)
RetryCounts == {None} \cup {Some(n) : n \in (0 - 1)..MaxRetryCount}

\* how a call ended (generateStepDescription, troubleshootWithLLM, a
\* handler): it returned value, or it threw
Returned(value) == [kind |-> "returned", value |-> value]
Threw == [kind |-> "threw", value |-> <<>>]
NotSettled == [kind |-> "pending", value |-> <<>>]

\* a JavaScript value of a step field: its type and String(value)
JsValue(kind, str) == [kind |-> kind, str |-> str]

\* the field is absent
NoText == JsValue("undefined", "undefined")

\* the action and the text of a step: PlanStep is { [key: string]: any } and
\* the plan producer validates neither, so text may be a number
StepShapes ==
    {[action |-> "click", text |-> NoText],
     [action |-> "type", text |-> JsValue("number", "42")]}

PlanStep(action, text, optional, retryCount) ==
    [action |-> action, text |-> text, optional |-> optional,
     retryCount |-> retryCount]

\* a click step with neither target nor text
ClickStep(optional, retryCount) == PlanStep("click", NoText, optional, retryCount)

\* A PlanStep as the plan producer supplies it.
PlanSteps ==
    {PlanStep(shape.action, shape.text, optional, retryCount) :
        shape \in StepShapes, optional \in BOOLEAN, retryCount \in RetryCounts}

\* ExecutionPlan.steps
Plans == UNION {[1..n -> PlanSteps] : n \in 0..MaxSteps}

\* The candidate lists troubleshootWithLLM can resolve to.
CandidateLists == UNION {[1..n -> Candidates] : n \in 0..MaxCandidates}

VARIABLES
    plan,                \* plan.steps, the input of executePlanSteps
    pc,                  \* position of executePlanSteps
    formattedPlan,       \* const formattedPlan
    stepIdx,             \* position of `step` in formattedPlan (step.id + 1)
    attempts,            \* const attempts of the current step
    i,                   \* withRetry: loop counter
    lastError,           \* withRetry: let lastError
    rejection,           \* what withRetry rejected with (the caught `error`)
    candIdx,             \* position of `candidate` in error.candidates
    fallbackSucceeded,   \* let fallbackSucceeded
    lastFallbackResult,  \* let lastFallbackResult
    stepResultPayload,   \* let stepResultPayload
    overallSuccess,      \* let overallSuccess
    finalErrorMessage,   \* let finalErrorMessage
    sent,                \* messages passed to chrome.runtime.sendMessage, in order
    invokedSteps,        \* log: ids of the steps executeSingleAction ran for
    recoveredSteps,      \* log: ids of the steps onFail was called for
    outcomes,            \* log: the executeSingleAction calls of the current
                         \*      step, in order, and how each ended
    yielded,             \* log: the onFail calls of the current step, in
                         \*      order: the list each resolved to, and the
                         \*      number of executeSingleAction calls before it
    inProgress           \* executeSingleAction calls started and not settled

\* the state of executePlanSteps and withRetry
execVars == <<plan, pc, formattedPlan, stepIdx, attempts, i, lastError,
              rejection, candIdx, fallbackSucceeded, lastFallbackResult,
              stepResultPayload, overallSuccess, finalErrorMessage, sent,
              invokedSteps, recoveredSteps, outcomes, yielded, inProgress>>

\* handleClick and the active tab (planExecutor.ts 155-222, 386, 426, 458)
VARIABLES
    activeTabId,         \* executePlanSteps: let activeTabId
    clickPc,             \* "idle", "settle" while handleClick awaits its
                         \* 1000 ms timer, or "script" while handleClick awaits
                         \* chrome.scripting.executeScript
    listener,            \* the tabId captured by the registered
                         \* newTabListener, if one is registered
    newTabId,            \* handleClick: let newTabId
    notifications,       \* chrome.tabs.onCreated events not yet dispatched
    tabCount,            \* tabs that exist (their ids are 1..tabCount)
    openedByClick,       \* the tab the running click has opened, if any
    requiredTab,         \* log: the tab opened by the latest click that
                         \*      opened one from the active tab
    dropped,             \* log: the tabs whose onCreated event found no
                         \*      listener registered for their opener
    tabCalls,            \* log: the executeSingleAction calls, in order: the
                         \*      tab each was given
    clickExit            \* log: how the latest handleClick ended, if one did

clickVars == <<activeTabId, clickPc, listener, newTabId, notifications,
               tabCount, openedByClick, requiredTab, dropped, tabCalls,
    clickExit>>

\* troubleshootWithLLM (retryUtils.ts 102-209)
VARIABLES
    tsPc,                \* position of troubleshootWithLLM: "storage",
                         \* "capture", "suggest", "filter", "done"
    page,                \* the page in the tab: for each frame, the
                         \* selectors that match an element in it
    suggested,           \* const fallbackCandidates
    candPos,             \* position of `candidate` in fallbackCandidates
    viableCandidates,    \* const viableCandidates
    tsOutcome,           \* how troubleshootWithLLM settled
    faults,              \* log: what went wrong during the call
    keptAt,              \* log: the positions of the candidates kept
    probeFailedAt        \* log: the positions of the candidates whose
                         \*      existence probe rejected

recoveryVars == <<tsPc, page, suggested, candPos, viableCandidates, tsOutcome,
                  faults, keptAt, probeFailedAt>>

\* getTroubleshootingSuggestion, from the response on (part_002 185-223)
VARIABLES
    response,            \* what the suggestion service answered: its kind
                         \* and the elements of its array
    content,             \* const content: the text of the answer
    parseOutcome         \* how the parsing settled

parseVars == <<response, content, parseOutcome>>

\* the execution of one fallback candidate (planExecutor.ts 456-457, 162-163)
VARIABLES
    originalStep,        \* the failed `step`
    candidateStep,       \* the `candidate` being tried
    resolvedBy           \* what the action handler looks the element up by,
                         \* once executeSingleAction ran

mergeVars == <<originalStep, candidateStep, resolvedBy>>

\* the element resolver and the action handlers that use it
\* (pageUtils.ts 31-112, main.ts 325-496 and 640-672, planExecutor.ts 47-236)
VARIABLES
    dom,                 \* the page in the tab: the document of each frame
    request,             \* the step the handler is called with
    found,               \* what the resolver returned for the main document
    frameResults,        \* const results: what the injected function returned
                         \* in each frame
    handled,             \* how the handler settled
    slept                \* log: the fixed delays the handler waited out

domVars == <<dom, request, found, frameResults, handled, slept>>

\* the panel's message listener (part_001 293-344, 376-392)
VARIABLES
    currentRequestId,    \* let currentRequestId: <<>> for null
    planForDisplay,      \* let planForDisplay
    resultsStore,        \* const resultsStore: the StepResult kept for each
                         \* step id
    isLoading,           \* let isLoading
    planError,           \* let planError
    delivered,           \* the messages of `sent` the listener has run for
    applied,             \* log: the positions in `sent` of the messages the
                         \*      listener did not ignore
    heard                \* the last message the listener was called with, and
                         \* the requestId it carried

panelVars == <<currentRequestId, planForDisplay, resultsStore, isLoading,
               planError, delivered, applied,
    heard>>

\* withRetry seen for its waits (retryUtils.ts 22-40, planExecutor.ts 411-412)
VARIABLES
    retryStep,           \* the step: its retryCount and retryDelayMs
    retryI,              \* let i of the retry loop
    retryPc,             \* "loop", "returned" once an attempt resolved,
                         \* "exhausted" once the loop has ended
    waits                \* log: the back-off delays awaited, in order

retryVars == <<retryStep, retryI, retryPc, waits>>

\* handleNavigate (planExecutor.ts 91-112)
VARIABLES
    navTabId,            \* tabId
    navStep,             \* the step: its url
    navPc,               \* "start", "updating" (chrome.tabs.update awaited),
                         \* "waiting" (the promise awaited), "returned", "threw"
    navListener,         \* the listener is registered on chrome.tabs.onUpdated
    navTimers,           \* the due time of each pending setTimeout, or None
    navNow,              \* the clock, in ms since handleNavigate was called
    navLastEvent,        \* the last chrome.tabs.onUpdated event dispatched
    navResolveCalls,     \* log: calls of resolve
    navReturns           \* log: times the await of the promise completed

navVars == <<navTabId, navStep, navPc, navListener, navTimers, navNow,
    navLastEvent, navResolveCalls, navReturns>>

\* the executePlan branch of the background message listener (main.ts 15-80)
VARIABLES
    dispMessage,         \* the executePlan message: its requestId and plan,
                         \* and sender.tab?.id
    dispPc,              \* "received", "query" (chrome.tabs.query awaited),
                         \* "check", "responded" (sendResponse called, no
                         \* execution), "failed" (error event sent),
                         \* "started" (executePlanSteps called)
    targetTabId,         \* let targetTabId
    activeTabQuery       \* what chrome.tabs.query resolved to, once it did

dispVars == <<dispMessage, dispPc, targetTabId, activeTabQuery>>

\* everything but the state of executePlanSteps
nonExecVars == <<clickVars, recoveryVars, parseVars, mergeVars,
    domVars,
    panelVars,
    retryVars,
    navVars,
    dispVars>>

\* everything but the click state
nonClickVars == <<execVars, recoveryVars, parseVars, mergeVars,
    domVars,
    panelVars,
    retryVars,
    navVars,
    dispVars>>

\* everything but the state of troubleshootWithLLM
nonRecoveryVars == <<execVars, clickVars, parseVars, mergeVars,
    domVars,
    panelVars,
    retryVars,
    navVars,
    dispVars>>

\* everything but the state of the response parsing
nonParseVars == <<execVars, clickVars, recoveryVars, mergeVars,
    domVars,
    panelVars,
    retryVars,
    navVars,
    dispVars>>

\* everything but the state of the candidate's execution
nonMergeVars == <<execVars, clickVars, recoveryVars, parseVars,
    domVars,
    panelVars,
    retryVars,
    navVars,
    dispVars>>

\* everything but the page and the handler called on it
nonDomVars == <<execVars, clickVars, recoveryVars, parseVars, mergeVars,
    panelVars,
    retryVars,
    navVars,
    dispVars>>

\* everything but the panel
nonPanelVars == <<execVars, clickVars, recoveryVars, parseVars, mergeVars,
    domVars,
    retryVars,
    navVars,
    dispVars>>

\* everything but the retry loop followed for its waits
nonRetryVars == <<execVars, clickVars, recoveryVars, parseVars, mergeVars,
    domVars, panelVars,
    navVars,
    dispVars>>

\* everything but handleNavigate
nonNavVars == <<execVars, clickVars, recoveryVars, parseVars, mergeVars,
    domVars, panelVars, retryVars,
    dispVars>>

\* everything but the dispatcher
nonDispVars == <<clickVars, recoveryVars, parseVars, mergeVars,
    domVars, panelVars, retryVars, navVars>>

vars == <<execVars, clickVars, recoveryVars, parseVars, mergeVars,
    domVars,
    panelVars,
    retryVars,
    navVars,
    dispVars>>

(* ------------------------------ helpers ------------------------------- *)

\* error instanceof Error ? error.message : String(error)
ErrorMessage(err) == IF err = Undefined THEN "undefined" ELSE err

\* a || b on strings-or-undefined: the empty string and undefined are falsy
OrElse(a, b) == IF a = Undefined \/ a = "" THEN b ELSE a

\* step.retryCount ?? MAX_STEP_RETRIES
Attempts(step) ==
    IF step.retryCount = None THEN MAX_STEP_RETRIES ELSE step.retryCount[1]

\* step.target || step.selector inside a template literal: the steps of this
\* model carry neither, and the literal prints undefined
TargetText == "undefined"

\* text.substring(0, 20) followed by (text.length > 20 ? '...' : '')
Shortened(str) ==
    IF Len(str) > 20 THEN SubSeq(str, 1, 20) \o "..." ELSE str

\* generateStepDescription(step). For a type step the text is cut with
\* step.text?.substring(0, 20): ?. skips the call only for null and undefined,
\* so a text that is not a string (a number, a boolean, an object) has no
\* substring method and the call throws a TypeError. The steps of this model
\* carry an action and a text only: every other field the switch reads (url,
\* target, selector, submit, duration, direction, attribute, filename) is
\* absent, and the description is what the code prints for an absent field.
GenerateStepDescription(step) ==
    CASE step.action = "navigate" -> Returned("Navigate to undefined")
      [] step.action = "type" ->
             IF step.text.kind \in {"undefined", "null"}
             THEN Returned("Type \"undefined\" into " \o TargetText)
             ELSE IF step.text.kind = "string"
                  THEN Returned("Type \"" \o Shortened(step.text.str)
                                \o "\" into " \o TargetText)
                  ELSE Threw
      [] step.action = "click" -> Returned("Click on " \o TargetText)
      [] step.action = "wait" -> Returned("Wait for undefinedms")
      [] step.action = "scroll" -> Returned("Scroll element into view page")
      [] step.action = "extract" -> Returned("Extract text from " \o TargetText)
      [] step.action = "go_back" -> Returned("Navigate back")
      [] step.action = "go_forward" -> Returned("Navigate forward")
      [] step.action = "refresh" -> Returned("Refresh page")
      [] step.action = "screenshot" -> Returned("Take screenshot")
      [] OTHER -> Returned("Perform action: " \o step.action)

\* mutant: ids counted from 1
FormatStep_OneBased(step, index) ==
    [id |-> index + 1, action |-> step.action, text |-> step.text,
     optional |-> step.optional, retryCount |-> step.retryCount,
     description |-> GenerateStepDescription(step).value]

\* { ...step, id: index, description: generateStepDescription(step) }, for a
\* step whose description can be generated
FormatStep(step, index) ==
    [id |-> index, action |-> step.action, text |-> step.text,
     optional |-> step.optional, retryCount |-> step.retryCount,
     description |-> GenerateStepDescription(step).value]

\* plan.steps.map((step, index) => ...), when no callback throws
FormatPlan(steps) == [k \in 1..Len(steps) |-> FormatStep(steps[k], k - 1)]

\* a callback of plan.steps.map throws: the map stops at the first such step
\* and the exception leaves executePlanSteps (there is no try around it)
FormatThrows(steps) ==
    \E k \in 1..Len(steps) : GenerateStepDescription(steps[k]).kind = "threw"

\* StepResult
StepResult(success, error, fallback) ==
    [success |-> success, error |-> error, fallback |-> fallback]

\* { type: "planReceived", formattedPlan }
PlanReceivedMsg(fp) == [type |-> "planReceived", formattedPlan |-> fp]

\* mutant: every result is sent under the id of the plan's last step
PlanStepResultMsg_LastStepId(isFinal, stepId, result) ==
    [type |-> "planStepResult", isFinal |-> isFinal,
     stepId |-> Len(formattedPlan) - 1, result |-> result]

\* { type: "planStepResult", isFinal, stepId, result }
PlanStepResultMsg(isFinal, stepId, result) ==
    [type |-> "planStepResult", isFinal |-> isFinal, stepId |-> stepId,
     result |-> result]

\* the current `step` of the for-of loop
CurStep == formattedPlan[stepIdx]

\* record of one executeSingleAction call for the current step: `rank` is 0
\* for the step's own action and the candidate's position for a fallback;
\* `outcome` is "ok" or the error thrown; `at` is the number of messages sent
\* before the call
Outcome(rank, cand, outcome) ==
    [rank |-> rank, candidate |-> cand, outcome |-> outcome, at |-> Len(sent)]

(* ------------------------------ withRetry ----------------------------- *)

\* mutant: one attempt short
RetryLoopContinues_OffByOne(n, att) == n < att

\* for (let i = 1; i <= attempts; i++)
RetryLoopContinues(n, att) == n <= att

\* mutant: recovery also for optional steps
SkipsRecovery_Never(isOptional) == FALSE

\* mutant: recovery for no step
SkipsRecovery_Always(isOptional) == TRUE

\* if (isOptional) throw lastError
SkipsRecovery(isOptional) == isOptional

\* mutant: the FallbackError carries the best-ranked candidate only
Rejection_FirstOnly(fallbackCandidates, err) ==
    IF Len(fallbackCandidates) > 0
    THEN [isFallbackError |-> TRUE, candidates |-> <<fallbackCandidates[1]>>,
          error |-> err]
    ELSE [isFallbackError |-> FALSE, candidates |-> <<>>, error |-> err]

\* what withRetry throws once onFail resolved to fallbackCandidates
Rejection(fallbackCandidates, err) ==
    IF Len(fallbackCandidates) > 0
    THEN [isFallbackError |-> TRUE, candidates |-> fallbackCandidates,
          error |-> err]
    ELSE [isFallbackError |-> FALSE, candidates |-> <<>>, error |-> err]

NoRejection == [isFallbackError |-> FALSE, candidates |-> <<>>, error |-> Undefined]

(* ------------------------------- Init --------------------------------- *)

\* the state of executePlanSteps when it is called with the plan steps p
ExecInit(p) ==
    /\ plan = p
    /\ pc = "start"
    /\ formattedPlan = <<>>
    /\ stepIdx = 0
    /\ attempts = 0
    /\ i = 0
    /\ lastError = Undefined
    /\ rejection = NoRejection
    /\ candIdx = 0
    /\ fallbackSucceeded = FALSE
    /\ lastFallbackResult = None
    /\ stepResultPayload = StepResult(FALSE, Undefined, None)
    /\ overallSuccess = TRUE
    /\ finalErrorMessage = Undefined
    /\ sent = <<>>
    /\ invokedSteps = {}
    /\ recoveredSteps = {}
    /\ outcomes = <<>>
    /\ yielded = <<>>
    /\ inProgress = 0

\* the first tab: the one executePlanSteps is called for
FirstTab == 1

\* the click state when executePlanSteps is called for the first tab
ClickInit ==
    /\ activeTabId = FirstTab
    /\ clickPc = "idle"
    /\ listener = None
    /\ newTabId = None
    /\ notifications = <<>>
    /\ tabCount = 1
    /\ openedByClick = None
    /\ requiredTab = FirstTab
    /\ dropped = {}
    /\ tabCalls = <<>>
    /\ clickExit = None


\* the state of troubleshootWithLLM when it is called for a tab showing pg
RecoveryInit(pg) ==
    /\ tsPc = "storage"
    /\ page = pg
    /\ suggested = <<>>
    /\ candPos = 0
    /\ viableCandidates = <<>>
    /\ tsOutcome = NotSettled
    /\ faults = {}
    /\ keptAt = <<>>
    /\ probeFailedAt = {}

\* the frames of the tab
Frames == {"main", "iframe"}

\* a page no selector matches in
BlankPage == [f \in Frames |-> {}]

\* a response of the suggestion service: `kind` says how the text is laid
\* out, `elems` are the elements of its array (if it has one), `multiline`
\* whether the array is written one element per line, `pre` and `post`
\* whether prose precedes and follows a fenced block
Response(kind, elems, multiline, pre, post) ==
    [kind |-> kind, elems |-> elems, multiline |-> multiline,
     pre |-> pre, post |-> post]

\* the answer without content (message.content is null)
NullResponse == Response("null", <<>>, FALSE, FALSE, FALSE)

\* the parsing state before a response has arrived
ParseIdle ==
    /\ response = NullResponse
    /\ content = None
    /\ parseOutcome = NotSettled

\* a candidate PlanStep: action, and target and selector where it has them
Step(action, target, selector) ==
    [action |-> action, target |-> target, selector |-> selector]

\* the state before a candidate of the step `original` is executed
MergeInit(original, candidate) ==
    /\ originalStep = original
    /\ candidateStep = candidate
    /\ resolvedBy = None

\* the states of the parts a specification of another part leaves alone
ClickIdle == ClickInit
RecoveryIdle == RecoveryInit(BlankPage)
MergeIdle ==
    MergeInit(Step("click", Undefined, "#a"), Step("click", Undefined, "#a"))

\* a PlanStep as a handler reads it: text is <<>> unless it is a string,
\* submit and duration are <<>> when the step has none
ActionStep(action, target, selector, text, submit, duration) ==
    [action |-> action, target |-> target, selector |-> selector,
     text |-> text, submit |-> submit, duration |-> duration]

\* the state before a handler, or the resolver, is run for the step `step`
\* on the page `pg`
DomInit(pg, step) ==
    /\ dom = pg
    /\ request = step
    /\ found = NotSettled
    /\ frameResults = <<>>
    /\ handled = NotSettled
    /\ slept = <<>>

DomIdle ==
    DomInit([f \in Frames |-> <<>>],
            ActionStep("click", Undefined, Undefined, None, None, None))

\* the request id the panel made for the plan it submitted, which the engine
\* puts in every message it sends
RequestId == "req-1"

\* the panel after handleSubmitInstructions has sent executePlan
PanelInit ==
    /\ currentRequestId = Some(RequestId)
    /\ planForDisplay = <<>>
    /\ resultsStore = <<>>
    /\ isLoading = TRUE
    /\ planError = ""
    /\ delivered = 0
    /\ applied = {}
    /\ heard = None

\* withRetry is entered for the step `step`
RetryInit(step) ==
    /\ retryStep = step
    /\ retryI = 1
    /\ retryPc = "loop"
    /\ waits = <<>>

RetryIdle == RetryInit([retryCount |-> None, retryDelayMs |-> None])

\* handleNavigate(tabId, step) is called
NavInit(tabId, step) ==
    /\ navTabId = tabId
    /\ navStep = step
    /\ navPc = "start"
    /\ navListener = FALSE
    /\ navTimers = [settle |-> None, safety |-> None]
    /\ navNow = 0
    /\ navLastEvent = None
    /\ navResolveCalls = 0
    /\ navReturns = 0

NavIdle == NavInit(1, [url |-> None])

\* an executePlan message has reached the background listener
DispInit(message) ==
    /\ dispMessage = message
    /\ dispPc = "received"
    /\ targetTabId = None
    /\ activeTabQuery = NotSettled

DispIdle ==
    DispInit([requestId |-> Undefined, plan |-> None, senderTabId |-> None])

Init ==
    /\ \E p \in Plans : ExecInit(p)
    /\ DispIdle
    /\ NavIdle
    /\ RetryIdle
    /\ PanelInit
    /\ DomIdle
    /\ ClickIdle
    /\ RecoveryIdle
    /\ ParseIdle
    /\ MergeIdle

(* ------------------------------ actions ------------------------------- *)

\* executePlanSteps up to the loop: format the plan and publish it. When
\* generateStepDescription throws for a step, executePlanSteps rejects before
\* it has sent anything; its caller (main.ts 61-64) logs the rejection and
\* sends nothing either
StartPlan ==
    /\ pc = "start"
    /\ IF FormatThrows(plan)
       THEN /\ pc' = "rejected"
            /\ UNCHANGED <<formattedPlan, sent, overallSuccess,
                           finalErrorMessage, stepResultPayload, stepIdx>>
       ELSE /\ formattedPlan' = FormatPlan(plan)
            /\ sent' = Append(sent, PlanReceivedMsg(FormatPlan(plan)))
            /\ overallSuccess' = TRUE
            /\ finalErrorMessage' = Undefined
            /\ stepResultPayload' = StepResult(FALSE, Undefined, None)
            /\ stepIdx' = 1
            /\ pc' = IF Len(plan) = 0 THEN "complete" ELSE "step"
    /\ UNCHANGED <<plan, attempts, i, lastError, rejection, candIdx,
                   fallbackSucceeded, lastFallbackResult, invokedSteps, recoveredSteps,
                   outcomes, yielded, inProgress,
                   nonExecVars>>

\* head of the loop body, and the entry of withRetry
BeginStep ==
    /\ pc = "step"
    /\ attempts' = Attempts(CurStep)
    /\ stepResultPayload' = StepResult(FALSE, Undefined, None)
    /\ i' = 1
    /\ lastError' = Undefined
    /\ rejection' = NoRejection
    /\ outcomes' = <<>>
    /\ yielded' = <<>>
    /\ pc' = "attempt"
    /\ UNCHANGED <<plan, formattedPlan, stepIdx, candIdx, fallbackSucceeded,
                   lastFallbackResult, overallSuccess, finalErrorMessage,
                   sent, invokedSteps, recoveredSteps, inProgress,
                   nonExecVars>>

\* mutant: the call is not awaited, the loop goes on while it runs
PcAwaiting_NotAwaited(here) == here

\* await: the function is suspended until the call it made settles
PcAwaiting(here) == IF here = "attempt" THEN "attemptAwait" ELSE "fallbackAwait"

\* withRetry enters the loop body: action() calls executeSingleAction for the
\* step's own action
InvokeAction ==
    /\ pc = "attempt"
    /\ RetryLoopContinues(i, attempts)
    /\ invokedSteps' = invokedSteps \cup {CurStep.id}
    /\ inProgress' = inProgress + 1
    /\ pc' = PcAwaiting("attempt")
    /\ UNCHANGED <<plan, formattedPlan, stepIdx, attempts, i, lastError,
                   rejection, candIdx, fallbackSucceeded, lastFallbackResult,
                   stepResultPayload, overallSuccess, finalErrorMessage, sent,
                   recoveredSteps, outcomes, yielded,
                   nonExecVars>>

\* one attempt of withRetry resolves: withRetry returns, the step succeeded
AttemptSucceeds ==
    /\ pc = "attemptAwait"
    /\ inProgress' = inProgress - 1
    /\ outcomes' = Append(outcomes, Outcome(0, None, "ok"))
    /\ stepResultPayload' = [stepResultPayload EXCEPT !.success = TRUE]
    /\ pc' = "final"
    /\ UNCHANGED <<plan, formattedPlan, stepIdx, attempts, i, lastError,
                   rejection, candIdx, fallbackSucceeded, lastFallbackResult,
                   overallSuccess, finalErrorMessage, sent, recoveredSteps,
                   yielded, invokedSteps,
                   nonExecVars>>

\* one attempt of withRetry rejects with err: remember it, back off, loop
AttemptFails(err) ==
    /\ pc = "attemptAwait"
    /\ inProgress' = inProgress - 1
    /\ outcomes' = Append(outcomes, Outcome(0, None, err))
    /\ lastError' = err
    /\ i' = i + 1
    /\ pc' = "attempt"
    /\ UNCHANGED <<plan, formattedPlan, stepIdx, attempts, rejection,
                   candIdx, fallbackSucceeded, lastFallbackResult,
                   stepResultPayload, overallSuccess, finalErrorMessage,
                   sent, recoveredSteps, yielded, invokedSteps,
                   nonExecVars>>

\* retries exhausted on an optional step: throw lastError, onFail not called
ThrowOptional ==
    /\ pc = "attempt"
    /\ ~RetryLoopContinues(i, attempts)
    /\ SkipsRecovery(CurStep.optional)
    /\ rejection' = Rejection(<<>>, lastError)
    /\ pc' = "catch"
    /\ UNCHANGED <<plan, formattedPlan, stepIdx, attempts, i, lastError,
                   candIdx, fallbackSucceeded, lastFallbackResult,
                   stepResultPayload, overallSuccess, finalErrorMessage,
                   sent, invokedSteps, recoveredSteps, outcomes, yielded, inProgress,
                   nonExecVars>>

\* retries exhausted otherwise: await onFail(lastError), i.e.
\* troubleshootWithLLM, which resolves to a candidate list; then throw
OnFail(fallbackCandidates) ==
    /\ pc = "attempt"
    /\ ~RetryLoopContinues(i, attempts)
    /\ ~SkipsRecovery(CurStep.optional)
    /\ recoveredSteps' = recoveredSteps \cup {CurStep.id}
    /\ yielded' = Append(yielded,
           [returned |-> fallbackCandidates, at |-> Len(outcomes)])
    /\ rejection' = Rejection(fallbackCandidates, lastError)
    /\ pc' = "catch"
    /\ UNCHANGED <<plan, formattedPlan, stepIdx, attempts, i, lastError,
                   candIdx, fallbackSucceeded, lastFallbackResult,
                   stepResultPayload, overallSuccess, finalErrorMessage,
                   sent, invokedSteps, outcomes, inProgress,
                   nonExecVars>>

(* -------------------------- executePlanSteps -------------------------- *)

\* error instanceof FallbackError && error.candidates && error.candidates.length > 0
HasFallbacks(rej) == rej.isFallbackError /\ Len(rej.candidates) > 0

\* mutant: no break on the first success
FallbackLoopContinues_NoBreak(succeeded, idx, cands) == idx <= Len(cands)

\* for (const candidate of error.candidates) { ... break on first success }
FallbackLoopContinues(succeeded, idx, cands) == ~succeeded /\ idx <= Len(cands)

\* mutant: the original error is not cleared when a fallback worked
PayloadAfterFallbacks_KeepsError(payload, succeeded, last) ==
    StepResult(succeeded, payload.error, last)

\* mutant: the original error is replaced by the last fallback's error
PayloadAfterFallbacks_FallbackError(payload, succeeded, last) ==
    StepResult(succeeded, IF succeeded THEN Undefined ELSE last[1].error, last)

\* "Update final step result payload after trying fallbacks"
PayloadAfterFallbacks(payload, succeeded, last) ==
    StepResult(succeeded, IF succeeded THEN Undefined ELSE payload.error, last)

\* mutant: a failed step never stops the plan
HaltsPlan_Never(result, step) == FALSE

\* if (!stepResultPayload.success) { if (step.optional) ... else break }
HaltsPlan(result, step) == ~result.success /\ ~step.optional

\* the catch block up to the choice between fallbacks and hard failure: send
\* the initial failure; without candidates the step has failed for good
CatchFailure ==
    /\ pc = "catch"
    /\ LET payload == StepResult(FALSE, ErrorMessage(rejection.error), None)
       IN /\ sent' = Append(sent, PlanStepResultMsg(FALSE, CurStep.id, payload))
          /\ stepResultPayload' = payload
          /\ IF HasFallbacks(rejection)
             THEN /\ candIdx' = 1
                  /\ fallbackSucceeded' = FALSE
                  /\ lastFallbackResult' = None
                  /\ pc' = "fallback"
                  /\ UNCHANGED <<overallSuccess, finalErrorMessage>>
             ELSE /\ finalErrorMessage' = payload.error
                  /\ overallSuccess' = FALSE
                  /\ pc' = "final"
                  /\ UNCHANGED <<candIdx, fallbackSucceeded, lastFallbackResult>>
    /\ UNCHANGED <<plan, formattedPlan, stepIdx, attempts, i, lastError,
                   rejection, invokedSteps, recoveredSteps, outcomes, yielded, inProgress,
                   nonExecVars>>

\* the candidate loop enters its body: executeSingleAction is called for the
\* next candidate
InvokeFallback ==
    /\ pc = "fallback"
    /\ FallbackLoopContinues(fallbackSucceeded, candIdx, rejection.candidates)
    /\ invokedSteps' = invokedSteps \cup {CurStep.id}
    /\ inProgress' = inProgress + 1
    /\ pc' = PcAwaiting("fallback")
    /\ UNCHANGED <<plan, formattedPlan, stepIdx, attempts, i, lastError,
                   rejection, candIdx, fallbackSucceeded, lastFallbackResult,
                   stepResultPayload, overallSuccess, finalErrorMessage, sent,
                   recoveredSteps, outcomes, yielded,
                   nonExecVars>>

\* the candidate's call (made once, without retry) resolves
FallbackSucceeds ==
    /\ pc = "fallbackAwait"
    /\ inProgress' = inProgress - 1
    /\ LET candidate == rejection.candidates[candIdx]
       IN /\ outcomes' = Append(outcomes, Outcome(candIdx, Some(candidate), "ok"))
          /\ lastFallbackResult' =
                 Some([step |-> candidate, success |-> TRUE, error |-> Undefined])
    /\ fallbackSucceeded' = TRUE
    /\ pc' = "fallback"
    /\ UNCHANGED <<plan, formattedPlan, stepIdx, attempts, i, lastError,
                   rejection, candIdx, stepResultPayload, overallSuccess,
                   finalErrorMessage, sent, recoveredSteps, yielded,
                   invokedSteps,
                   nonExecVars>>

\* the candidate's call rejects with err; go on to the one after it
FallbackFails(err) ==
    /\ pc = "fallbackAwait"
    /\ inProgress' = inProgress - 1
    /\ LET candidate == rejection.candidates[candIdx]
       IN /\ outcomes' = Append(outcomes, Outcome(candIdx, Some(candidate), err))
          /\ lastFallbackResult' =
                 Some([step |-> candidate, success |-> FALSE,
                       error |-> ErrorMessage(err)])
    /\ candIdx' = candIdx + 1
    /\ pc' = "fallback"
    /\ UNCHANGED <<plan, formattedPlan, stepIdx, attempts, i, lastError,
                   rejection, fallbackSucceeded, stepResultPayload,
                   overallSuccess, finalErrorMessage, sent, recoveredSteps,
                   yielded, invokedSteps,
                   nonExecVars>>

\* after the candidate loop: the step's final payload and the plan's outcome
AfterFallbacks ==
    /\ pc = "fallback"
    /\ ~FallbackLoopContinues(fallbackSucceeded, candIdx, rejection.candidates)
    /\ stepResultPayload' =
           PayloadAfterFallbacks(stepResultPayload, fallbackSucceeded,
                                 lastFallbackResult)
    /\ IF fallbackSucceeded
       THEN UNCHANGED <<overallSuccess, finalErrorMessage>>
       ELSE /\ finalErrorMessage' =
                   OrElse(stepResultPayload.error, "Step failed after all fallbacks")
            /\ overallSuccess' = FALSE
    /\ pc' = "final"
    /\ UNCHANGED <<plan, formattedPlan, stepIdx, attempts, i, lastError,
                   rejection, candIdx, fallbackSucceeded, lastFallbackResult,
                   sent, invokedSteps, recoveredSteps, outcomes, yielded, inProgress,
                   nonExecVars>>

\* mutant: return instead of break
PcAfterBreak_Return == "done"

\* break: leave the loop for the code that follows it
PcAfterBreak == "complete"

\* send the step's final result, then halt, or settle and take the next step
SendFinalStepResult ==
    /\ pc = "final"
    /\ sent' = Append(sent,
           PlanStepResultMsg(FALSE, CurStep.id, stepResultPayload))
    /\ IF HaltsPlan(stepResultPayload, CurStep)
       THEN pc' = PcAfterBreak /\ UNCHANGED stepIdx
       ELSE IF stepIdx < Len(formattedPlan)
            THEN pc' = "step" /\ stepIdx' = stepIdx + 1
            ELSE pc' = "complete" /\ UNCHANGED stepIdx
    /\ UNCHANGED <<plan, formattedPlan, attempts, i, lastError, rejection,
                   candIdx, fallbackSucceeded, lastFallbackResult,
                   stepResultPayload, overallSuccess, finalErrorMessage,
                   invokedSteps, recoveredSteps, outcomes, yielded, inProgress,
                   nonExecVars>>

\* after the loop: the overall completion message
SendCompletion ==
    /\ pc = "complete"
    /\ sent' = Append(sent,
           PlanStepResultMsg(TRUE, Len(formattedPlan) - 1,
               StepResult(overallSuccess, finalErrorMessage, None)))
    /\ pc' = "done"
    /\ UNCHANGED <<plan, formattedPlan, stepIdx, attempts, i, lastError,
                   rejection, candIdx, fallbackSucceeded, lastFallbackResult,
                   stepResultPayload, overallSuccess, finalErrorMessage,
                   invokedSteps, recoveredSteps, outcomes, yielded, inProgress,
                   nonExecVars>>

Next ==
    \/ StartPlan
    \/ BeginStep
    \/ InvokeAction
    \/ AttemptSucceeds
    \/ \E err \in Errors : AttemptFails(err)
    \/ ThrowOptional
    \/ \E cands \in CandidateLists : OnFail(cands)
    \/ CatchFailure
    \/ InvokeFallback
    \/ FallbackSucceeds
    \/ \E err \in Errors : FallbackFails(err)
    \/ AfterFallbacks
    \/ SendFinalStepResult
    \/ SendCompletion

Spec == Init /\ [][Next]_vars

\* every awaited call (an action, a recovery, a delay) settles, so
\* executePlanSteps always takes its next step
FairSpec == Spec /\ WF_vars(Next)

(* ---------------------- reading the logs and messages ----------------- *)

StepIds == 0..(Len(formattedPlan) - 1)

\* a per-step result message (interim or final) of step k
IsStepResultOf(m, k) ==
    m.type = "planStepResult" /\ ~m.isFinal /\ m.stepId = k

\* positions in `sent` of the per-step results of step k
ResultPositions(k) == {n \in 1..Len(sent) : IsStepResultOf(sent[n], k)}

MaxOf(S) == CHOOSE x \in S : \A y \in S : y <= x

\* step k has left the loop body: its final result has been sent
Finished(k) ==
    \/ k + 1 < stepIdx
    \/ k + 1 = stepIdx /\ pc \in {"complete", "done"}

\* the final StepResult of a finished step: the last result sent for it
FinalResultOf(k) == sent[MaxOf(ResultPositions(k))].result

\* the step whose calls `outcomes` and `yielded` hold
LoggedStepId == IF pc = "step" THEN stepIdx - 2 ELSE stepIdx - 1

\* the logged step is finished
LoggedStepFinished == LoggedStepId \in StepIds /\ Finished(LoggedStepId)

IsOwnCall(o) == o.rank = 0
IsFallbackCall(o) == o.rank > 0

\* the calls of the logged step's own action (the attempts of withRetry)
OwnCalls == SelectSeq(outcomes, IsOwnCall)

\* the calls of the logged step's fallback candidates
FallbackCalls == SelectSeq(outcomes, IsFallbackCall)

AllFailed(calls) == \A n \in 1..Len(calls) : calls[n].outcome # "ok"

\* the overall completion message, once sent
Completion == sent[Len(sent)]

(* ------------------------------- claims ------------------------------- *)

\* C1 -- Plan halt: once a non-optional step has ended in failure with no
\* fallback candidate (its final result carries no fallback), no action of a
\* later step is ever invoked and no per-step result is ever sent for a later
\* step id.
C1_PlanHalt ==
    \A k \in StepIds :
        (/\ Finished(k)
         /\ ~formattedPlan[k + 1].optional
         /\ ~FinalResultOf(k).success
         /\ FinalResultOf(k).fallback = None)
        => \A j \in StepIds :
               j > k => j \notin invokedSteps /\ ResultPositions(j) = {}

\* C1 witness: a two-step plan is done, its first step was attempted, failed
\* for good without fallback, and is not optional.
C1_Witness ==
    /\ pc = "done"
    /\ Len(formattedPlan) = 2
    /\ ~formattedPlan[1].optional
    /\ 0 \in invokedSteps
    /\ 0 \in recoveredSteps
    /\ ~FinalResultOf(0).success
    /\ FinalResultOf(0).fallback = None

\* C2 -- the completion message has success = true if and only if no
\* non-optional step failed terminally (so a plan in which only optional
\* steps failed ends with success = true).
C2_OverallSuccessIffNoRequiredFailure ==
    pc = "done" =>
        (Completion.result.success
            <=> \A k \in StepIds :
                    Finished(k) /\ ~FinalResultOf(k).success
                        => formattedPlan[k + 1].optional)

\* C3 -- Optional short-circuit: for an optional step the recovery callback
\* is never called, no fallback candidate is executed, no result sent for it
\* carries a fallback, and the plan does not stop at it: when the plan is
\* done, the step after it has its result too.
C3_OptionalShortCircuit ==
    \A k \in StepIds :
        formattedPlan[k + 1].optional =>
            /\ k \notin recoveredSteps
            /\ k = LoggedStepId => yielded = <<>> /\ FallbackCalls = <<>>
            /\ \A n \in ResultPositions(k) : sent[n].result.fallback = None
            /\ (Finished(k) /\ k + 1 \in StepIds) =>
                   /\ stepIdx > k + 1
                   /\ pc = "done" => ResultPositions(k + 1) # {}

\* C3 witness: a two-step plan is done; its optional first step was attempted
\* and failed on every attempt, and the second step's action was invoked.
C3_Witness ==
    /\ pc = "done"
    /\ Len(formattedPlan) = 2
    /\ formattedPlan[1].optional
    /\ 0 \in invokedSteps
    /\ ~FinalResultOf(0).success
    /\ 1 \in invokedSteps

\* the error of the last attempt of withRetry for the logged step (undefined
\* when the loop made no attempt)
LastAttemptError ==
    IF OwnCalls = <<>> THEN Undefined ELSE OwnCalls[Len(OwnCalls)].outcome

\* every step before k succeeded in the end
AllSucceededBefore(k) ==
    \A j \in StepIds : j < k => FinalResultOf(j).success

\* C4 -- Fallback adoption: when a non-optional step's attempts all failed,
\* recovery returned candidates and the execution of one of them succeeded,
\* the step's final result is success = true with no error and with
\* fallback = that candidate, success = true; the plan goes on to the next
\* step (if any), and the overall outcome is a failure only if an earlier
\* step failed.
C4_FallbackAdoption ==
    (/\ LoggedStepFinished
     /\ ~formattedPlan[LoggedStepId + 1].optional
     /\ AllFailed(OwnCalls)
     /\ FallbackCalls # <<>>
     /\ FallbackCalls[Len(FallbackCalls)].outcome = "ok")
    => LET k == LoggedStepId
           r == FinalResultOf(k)
           adopted == FallbackCalls[Len(FallbackCalls)].candidate
       IN /\ r.success
          /\ r.error = Undefined
          /\ r.fallback =
                 Some([step |-> adopted[1], success |-> TRUE, error |-> Undefined])
          /\ k + 1 \in StepIds => stepIdx = k + 2 /\ pc = "step"
          /\ overallSuccess = AllSucceededBefore(k)
          /\ (pc = "done" /\ AllSucceededBefore(k)) =>
                 /\ Completion.result.success
                 /\ Completion.result.error = Undefined

\* C4 witness: the first step of a two-step plan, not optional, failed three
\* times, its first candidate failed and its second one succeeded, and the
\* step's final result has been sent.
C4_Witness ==
    /\ pc = "step"
    /\ LoggedStepId = 0
    /\ ~formattedPlan[1].optional
    /\ Len(OwnCalls) = 3
    /\ AllFailed(OwnCalls)
    /\ Len(FallbackCalls) = 2
    /\ FallbackCalls[1].outcome # "ok"
    /\ FallbackCalls[2].outcome = "ok"

\* the number of values i takes in for (let i = 1; i <= attempts; i++): the
\* calls `attempts` allows (none when it is zero or below)
CallsAllowed(att) == IF att > 0 THEN att ELSE 0

\* C5 -- Retry count: withRetry calls the action until its first success or
\* until `attempts` calls have failed: no call follows a success, there are
\* never more calls than `attempts` allows, withRetry rejects only after
\* exactly that many failed calls, and when the k-th call is the first
\* success the step succeeds after exactly k calls, without recovery or
\* fallback.
C5_RetryCount ==
    LoggedStepId \in StepIds =>
        LET n == Len(OwnCalls)
            att == CallsAllowed(Attempts(plan[LoggedStepId + 1]))
        IN /\ \A m \in 1..(n - 1) : OwnCalls[m].outcome # "ok"
           /\ n <= att
           /\ pc \in {"catch", "fallback", "fallbackAwait"} =>
                  n = att /\ AllFailed(OwnCalls)
           /\ (n > 0 /\ OwnCalls[n].outcome = "ok") =>
                  /\ pc \in {"final", "step", "complete", "done"}
                  /\ stepResultPayload = StepResult(TRUE, Undefined, None)
                  /\ rejection = NoRejection
                  /\ outcomes = OwnCalls
                  /\ yielded = <<>>
           /\ (LoggedStepFinished /\ AllFailed(OwnCalls)) => n = att

\* C5 witness: with the default of 3 attempts the action failed twice and
\* then succeeded: exactly 3 calls, and the step has succeeded.
C5_Witness ==
    /\ pc = "final"
    /\ CurStep.retryCount = None
    /\ Len(outcomes) = 3
    /\ outcomes[1].outcome # "ok"
    /\ outcomes[2].outcome # "ok"
    /\ outcomes[3].outcome = "ok"
    /\ stepResultPayload.success

\* C6 -- the failure callback is called at most once per step; it is called
\* only for a non-optional step, after the last of the failed calls of the
\* action that `attempts` allows; it has been called exactly once whenever
\* withRetry rejected for a non-optional step; and never when an attempt
\* succeeded.
C6_OnFailOnce ==
    LoggedStepId \in StepIds =>
        LET step == formattedPlan[LoggedStepId + 1]
        IN /\ Len(yielded) <= 1
           /\ (LoggedStepId \in recoveredSteps) <=> (Len(yielded) = 1)
           /\ Len(yielded) = 1 =>
                  /\ ~step.optional
                  /\ AllFailed(OwnCalls)
                  /\ Len(OwnCalls) = CallsAllowed(Attempts(step))
                  /\ yielded[1].at = CallsAllowed(Attempts(step))
                  /\ \A m \in 1..Len(outcomes) :
                         outcomes[m].rank = 0 <=> m <= yielded[1].at
           /\ (pc \in {"catch", "fallback", "fallbackAwait"} /\ ~step.optional) =>
                  Len(yielded) = 1
           /\ (LoggedStepFinished /\ ~step.optional /\ AllFailed(OwnCalls)) =>
                  Len(yielded) = 1
           /\ ~AllFailed(OwnCalls) => yielded = <<>>

\* C6 witness: withRetry has rejected after three failed attempts of a
\* non-optional step and one call of the failure callback.
C6_Witness ==
    /\ pc = "catch"
    /\ ~CurStep.optional
    /\ Len(OwnCalls) = 3
    /\ AllFailed(OwnCalls)
    /\ Len(yielded) = 1
    /\ yielded[1].at = 3

\* C7 -- when every attempt of a non-optional step failed: if recovery
\* yielded one or more candidates, withRetry rejects with a FallbackError that
\* carries exactly that list, in that order, and the last attempt's error as
\* originalError; if it yielded none, withRetry rejects with the last
\* attempt's error itself.
C7_Rejection ==
    (pc = "catch" /\ ~CurStep.optional) =>
        /\ Len(yielded) = 1
        /\ rejection.error = LastAttemptError
        /\ IF Len(yielded[1].returned) > 0
           THEN /\ rejection.isFallbackError
                /\ rejection.candidates = yielded[1].returned
           ELSE /\ ~rejection.isFallbackError
                /\ rejection.candidates = <<>>

\* C7 witness: withRetry has rejected with a FallbackError of two different
\* candidates, after attempts that failed with different errors.
C7_Witness ==
    /\ pc = "catch"
    /\ ~CurStep.optional
    /\ rejection.isFallbackError
    /\ Len(rejection.candidates) = 2
    /\ rejection.candidates[1] # rejection.candidates[2]
    /\ Len(OwnCalls) = 3
    /\ OwnCalls[1].outcome # OwnCalls[3].outcome

\* C7 witness (no candidates): withRetry has rejected with the last error
\* itself after recovery yielded nothing.
C7_WitnessNoCandidates ==
    /\ pc = "catch"
    /\ ~CurStep.optional
    /\ Len(yielded) = 1
    /\ yielded[1].returned = <<>>
    /\ Len(OwnCalls) = 3
    /\ OwnCalls[2].outcome # OwnCalls[3].outcome

\* C8 -- the fallback candidates of a step are executed strictly in list
\* order, after the step's own attempts: the n-th fallback call executes the
\* n-th candidate of the list recovery returned, and no call follows a
\* candidate that succeeded.
C8_FallbackOrder ==
    LET fb == FallbackCalls
    IN fb # <<>> =>
           /\ Len(yielded) = 1
           /\ Len(fb) <= Len(yielded[1].returned)
           /\ \A n \in 1..Len(fb) :
                  /\ fb[n].rank = n
                  /\ fb[n].candidate = Some(yielded[1].returned[n])
                  /\ fb[n] = outcomes[Len(OwnCalls) + n]
                  /\ n < Len(fb) => fb[n].outcome # "ok"
           /\ fb[Len(fb)].outcome = "ok" =>
                  /\ outcomes[Len(outcomes)] = fb[Len(fb)]
                  /\ pc # "fallbackAwait"
                  /\ pc # "fallback" \/ fallbackSucceeded

\* C8 witness: of two different candidates the first was executed and
\* succeeded; the step is finished and the second was never executed.
C8_Witness ==
    /\ LoggedStepFinished
    /\ Len(yielded) = 1
    /\ Len(yielded[1].returned) = 2
    /\ yielded[1].returned[1] # yielded[1].returned[2]
    /\ Len(FallbackCalls) = 1
    /\ FallbackCalls[1].outcome = "ok"

\* C8 witness (order): the first candidate failed and then the second one,
\* a different candidate, was executed.
C8_WitnessSecond ==
    /\ Len(yielded) = 1
    /\ Len(FallbackCalls) = 2
    /\ FallbackCalls[1].candidate # FallbackCalls[2].candidate
    /\ FallbackCalls[1].outcome # "ok"

\* C9 -- if every fallback candidate of a non-optional step failed, the
\* step's final result has success = false, error = the message of the
\* original (last attempt's) error, and fallback = the last candidate of the
\* list with success = false and the message of that candidate's own error;
\* the plan halts there: no later step is begun.
C9_AllFallbacksFail ==
    (/\ LoggedStepFinished
     /\ ~formattedPlan[LoggedStepId + 1].optional
     /\ Len(yielded) = 1
     /\ Len(yielded[1].returned) > 0
     /\ Len(FallbackCalls) = Len(yielded[1].returned)
     /\ AllFailed(FallbackCalls))
    => LET k == LoggedStepId
           list == yielded[1].returned
           lastCall == FallbackCalls[Len(FallbackCalls)]
       IN /\ FinalResultOf(k) =
                 StepResult(FALSE, ErrorMessage(LastAttemptError),
                     Some([step |-> list[Len(list)], success |-> FALSE,
                           error |-> ErrorMessage(lastCall.outcome)]))
          /\ pc \in {"complete", "done"}
          /\ stepIdx = k + 1
          /\ \A j \in StepIds :
                 j > k => j \notin invokedSteps /\ ResultPositions(j) = {}

\* C9 witness: the first step of a two-step plan, not optional, failed; both
\* its candidates, different ones, failed with an error other than the
\* step's own; the plan is done.
C9_Witness ==
    /\ pc = "done"
    /\ Len(formattedPlan) = 2
    /\ stepIdx = 1
    /\ ~formattedPlan[1].optional
    /\ Len(OwnCalls) = 3
    /\ Len(FallbackCalls) = 2
    /\ AllFailed(FallbackCalls)
    /\ FallbackCalls[1].candidate # FallbackCalls[2].candidate
    /\ FallbackCalls[1].outcome # FallbackCalls[2].outcome
    /\ FallbackCalls[2].outcome # LastAttemptError

IsPlanReceived(m) == m.type = "planReceived"

\* C10 -- the formatted plan is published exactly once, as the first
\* message: nothing is sent and no action is invoked before it, no second
\* one follows, and it gives the n plan steps, in plan order, the ids
\* 0..n-1.
C10_PlanPublishedFirst ==
    /\ pc = "start" =>
           sent = <<>> /\ invokedSteps = {} /\ recoveredSteps = {} /\ outcomes = <<>>
    /\ pc # "start" =>
           /\ Len(sent) >= 1
           /\ IsPlanReceived(sent[1])
           /\ \A n \in 2..Len(sent) : ~IsPlanReceived(sent[n])
           /\ \A n \in 1..Len(outcomes) : outcomes[n].at >= 1
           /\ LET fp == sent[1].formattedPlan
              IN /\ Len(fp) = Len(plan)
                 /\ \A k \in 1..Len(plan) :
                        /\ fp[k].id = k - 1
                        /\ fp[k].optional = plan[k].optional
                        /\ fp[k].retryCount = plan[k].retryCount
                 /\ \A n \in 2..Len(sent) : sent[n].stepId < Len(plan)
                 /\ \A n \in 2..Len(sent) :
                        ~sent[n].isFinal => sent[n].stepId \in 0..(Len(plan) - 1)

\* C10 witness: a two-step plan is done and the actions of both steps were
\* invoked.
C10_Witness ==
    /\ pc = "done"
    /\ Len(plan) = 2
    /\ invokedSteps = {0, 1}
    /\ Len(sent) >= 4

\* positions in `sent` of the overall completion messages
CompletionPositions ==
    {n \in 1..Len(sent) : sent[n].type = "planStepResult" /\ sent[n].isFinal}

C11_OneCompletionLast ==
    /\ Cardinality(CompletionPositions) <= 1
    /\ CompletionPositions \subseteq {Len(sent)}
    /\ pc = "done" <=> CompletionPositions # {}

\* C11 -- in every run (empty plan, completed plan, plan halted early) at
\* most one isFinal = true message is ever sent, it is the last message sent,
\* it has been sent exactly when executePlanSteps has returned, and, every
\* awaited call settling, executePlanSteps does return.
C11_CompletionOnceLastEventually ==
    []C11_OneCompletionLast /\ <>(pc = "done")

\* C11 witness: a two-step plan halted at its first step, and the completion
\* message is the last of the three messages after the plan.
C11_Witness ==
    /\ pc = "done"
    /\ Len(plan) = 2
    /\ stepIdx = 1
    /\ 0 \in invokedSteps
    /\ CompletionPositions = {Len(sent)}
    /\ Len(sent) = 4

\* C11 witness (empty plan): the completion message follows the plan at once.
C11_WitnessEmptyPlan ==
    /\ pc = "done"
    /\ Len(plan) = 0
    /\ CompletionPositions = {2}

MinOf(S) == CHOOSE x \in S : \A y \in S : x <= y

\* withRetry has rejected for the logged step: its retry phase failed
RetryPhaseFailed ==
    pc \notin {"start", "attempt", "attemptAwait"} /\ AllFailed(OwnCalls)

\* C12 -- for every step that begins, one final result is sent, after all of
\* the step's calls (attempts and candidates); an interim result is sent if
\* and only if withRetry rejected, and it precedes every call of a candidate
\* and the final result. Interim and final results are both sent with
\* isFinal = false: the final one is the last one sent for the step.
C12_StepResults ==
    /\ \A k \in StepIds :
           LET pos == ResultPositions(k)
           IN /\ (pc = "start" \/ k + 1 > stepIdx) => pos = {}
              /\ Finished(k) =>
                     /\ Cardinality(pos) \in {1, 2}
                     /\ Cardinality(pos) = 2 <=> ~sent[MinOf(pos)].result.success
                     /\ \A j \in StepIds : \A n \in pos : \A m \in ResultPositions(j) :
                            k < j => n < m
    /\ LoggedStepId \in StepIds =>
           LET pos == ResultPositions(LoggedStepId)
               expected == IF RetryPhaseFailed THEN 2 ELSE 1
           IN /\ pc \in {"attempt", "attemptAwait", "catch"} => pos = {}
              /\ pc \in {"fallback", "fallbackAwait"} =>
                     RetryPhaseFailed /\ Cardinality(pos) = 1
              /\ pc = "final" => Cardinality(pos) = expected - 1
              /\ LoggedStepFinished =>
                     /\ Cardinality(pos) = expected
                     /\ \A n \in 1..Len(outcomes) : outcomes[n].at < MaxOf(pos)
              /\ FallbackCalls # <<>> => RetryPhaseFailed
              /\ (RetryPhaseFailed /\ pos # {}) =>
                     /\ ~sent[MinOf(pos)].result.success
                     /\ sent[MinOf(pos)].result.fallback = None
                     /\ \A n \in 1..Len(OwnCalls) : OwnCalls[n].at < MinOf(pos)
                     /\ \A n \in 1..Len(FallbackCalls) :
                            FallbackCalls[n].at >= MinOf(pos)
                     /\ Cardinality(pos) = 2 => MinOf(pos) < MaxOf(pos)

\* C12 witness: a step is finished whose three attempts failed and whose two
\* candidates were executed: an interim and a final result were sent for it.
C12_Witness ==
    /\ LoggedStepFinished
    /\ Len(OwnCalls) = 3
    /\ Len(FallbackCalls) = 2
    /\ Cardinality(ResultPositions(LoggedStepId)) = 2

\* C12 witness (no interim result): a step is finished that succeeded at its
\* second attempt, and one result was sent for it.
C12_WitnessNoInterim ==
    /\ LoggedStepFinished
    /\ Len(OwnCalls) = 2
    /\ ~AllFailed(OwnCalls)
    /\ Cardinality(ResultPositions(LoggedStepId)) = 1

\* the final result of step k has been sent: its only result if that reports
\* success, else the one sent after the interim result
FinalEmitted(k) ==
    LET pos == ResultPositions(k)
    IN pos # {} /\ (sent[MinOf(pos)].result.success \/ Cardinality(pos) = 2)

\* C13 -- steps run strictly one after another: at most one call of
\* executeSingleAction (an attempt or a candidate) is in progress at any
\* time, and no action of a step is invoked before the final result of every
\* earlier step has been sent.
C13_Sequential ==
    /\ inProgress \in {0, 1}
    /\ inProgress = 1 <=> pc \in {"attemptAwait", "fallbackAwait"}
    /\ \A j \in invokedSteps : \A k \in StepIds :
           k < j => Finished(k) /\ FinalEmitted(k)
    /\ \A j \in StepIds : j > LoggedStepId => j \notin invokedSteps
    /\ LoggedStepId \in StepIds =>
           \A n \in 1..Len(outcomes) : \A k \in StepIds :
               k < LoggedStepId => MaxOf(ResultPositions(k)) <= outcomes[n].at

\* C13 witness: a candidate of the second step is in progress, after the
\* first step failed, recovered by a candidate, and had its results sent.
C13_Witness ==
    /\ pc = "fallbackAwait"
    /\ stepIdx = 2
    /\ inProgress = 1
    /\ invokedSteps = {0, 1}
    /\ Cardinality(ResultPositions(0)) = 2

\* step k is finished, not optional, and its final result is a failure
FailedTerminally(k) ==
    Finished(k) /\ ~formattedPlan[k + 1].optional /\ ~FinalResultOf(k).success

\* C14 -- whenever the completion message carries an error, that error is
\* the error of the first non-optional step that failed terminally; the
\* error of a failed optional step is never reported as the plan's error.
C14_OverallErrorIsFirstRequiredFailure ==
    (pc = "done" /\ Completion.result.error # Undefined) =>
        \E k \in StepIds :
            /\ FailedTerminally(k)
            /\ \A j \in StepIds : j < k => ~FailedTerminally(j)
            /\ Completion.result.error = FinalResultOf(k).error

\* C32 -- every result recorded for a step comes after at least one call of
\* the step's own action, whatever its retryCount, and a recorded failure
\* carries the error one of those calls threw.
C32_ActionInvokedBeforeResult ==
    LoggedStepId \in StepIds =>
        \A n \in ResultPositions(LoggedStepId) :
            /\ \E m \in DOMAIN outcomes :
                   IsOwnCall(outcomes[m]) /\ outcomes[m].at < n
            /\ ~sent[n].result.success =>
                   \E m \in DOMAIN outcomes :
                       /\ IsOwnCall(outcomes[m])
                       /\ outcomes[m].outcome # "ok"
                       /\ sent[n].result.error = outcomes[m].outcome

\* the work done so far for the logged step stays within its bounds
WorkBounded ==
    LoggedStepId \in StepIds =>
        LET step == formattedPlan[LoggedStepId + 1]
            cands == IF yielded = <<>> THEN <<>> ELSE yielded[1].returned
        IN /\ Len(yielded) <= 1
           /\ \A a, b \in DOMAIN outcomes :
                  (a < b /\ outcomes[a].rank > 0) =>
                      outcomes[b].rank > outcomes[a].rank
           /\ \A m \in DOMAIN outcomes :
                  outcomes[m].rank > 0 =>
                      /\ yielded # <<>>
                      /\ m > yielded[1].at
                      /\ outcomes[m].rank \in DOMAIN cands
                      /\ outcomes[m].candidate = Some(cands[outcomes[m].rank])
           /\ Len(outcomes) + inProgress <= Attempts(step) + Len(cands)

\* C33 -- per-step work is bounded: recovery runs at most once for a step,
\* each candidate it returned is executed at most once and in one call, no
\* recovery follows a candidate's call, and the calls of executeSingleAction
\* for the step number at most attempts + candidates; and executePlanSteps
\* reaches its end (it returns, or it rejects while formatting) on every plan.
C33_BoundedWork ==
    /\ []WorkBounded
    /\ <>(pc \in {"done", "rejected"})

\* a step with the default 3 attempts failed them all, recovery returned two
\* candidates and both failed: five calls, the bound is met
C33_Witness ==
    /\ pc = "final"
    /\ CurStep.retryCount = None
    /\ Len(yielded) = 1
    /\ Len(yielded[1].returned) = 2
    /\ Len(outcomes) = 5
    /\ \A m \in DOMAIN outcomes : outcomes[m].outcome # "ok"
    /\ ~stepResultPayload.success

\* the candidate lists recovery can resolve to when the suggestion service
\* returns up to MaxReturned candidates and all of them are viable
ReturnedLists == UNION {[1..n -> Candidates] : n \in 0..MaxReturned}

NextUncapped ==
    \/ Next
    \/ \E cands \in ReturnedLists : OnFail(cands)

\* executePlanSteps with a suggestion service that is not held to three
\* candidates
SpecUncapped == Init /\ [][NextUncapped]_vars

\* C38 -- at most three fallback candidates are executed for any step,
\* however many candidates the suggestion service returned.
C38_AtMostThreeFallbacks ==
    LoggedStepId \in StepIds => Len(FallbackCalls) <= 3

(* ---------------------- handleClick and the active tab ---------------- *)

\* a chrome.tabs.Tab as the onCreated event carries it
Tab(id, openerTabId) == [id |-> id, openerTabId |-> openerTabId]

\* newTabListener: if (newTab.openerTabId === tabId) newTabId = newTab.id
NewTabListener(tabId, newTab, current) ==
    IF newTab.openerTabId = tabId THEN Some(newTab.id) ELSE current

\* handleClick's result: newTabId if one was detected, else tabId
ClickResult(tabId, detected) == IF detected # None THEN detected[1] ELSE tabId

\* record of one executeSingleAction call: the tab it was given, and the tab
\* opened by the latest click that opened one from the active tab
TabCall(action) ==
    [action |-> action, tabId |-> activeTabId, requiredTab |-> requiredTab]

\* executeSingleAction(step, activeTabId) for an action other than click: it
\* settles with the tab it was given, whether it resolves or rejects
ExecuteOtherAction ==
    /\ clickPc = "idle"
    /\ Len(tabCalls) < MaxCalls
    /\ tabCalls' = Append(tabCalls, TabCall("other"))
    /\ UNCHANGED <<activeTabId, clickPc, listener, newTabId, notifications,
                   tabCount, openedByClick, requiredTab, dropped, clickExit,
                   nonClickVars>>

\* the recovery protocol runs after the attempts of a step failed:
\* troubleshootWithLLM(step, err, activeTabId, requestId) is given the active
\* tab and returns candidates only
Troubleshoot ==
    /\ clickPc = "idle"
    /\ Len(tabCalls) < MaxCalls
    /\ tabCalls' = Append(tabCalls, TabCall("troubleshoot"))
    /\ UNCHANGED <<activeTabId, clickPc, listener, newTabId, notifications,
                   tabCount, openedByClick, requiredTab, dropped, clickExit,
                   nonClickVars>>

\* handleClick throws before it registers a listener: the step has neither
\* target nor selector, or waitForElement throws
ClickThrowsEarly ==
    /\ clickPc = "idle"
    /\ Len(tabCalls) < MaxCalls
    /\ tabCalls' = Append(tabCalls, TabCall("click"))
    /\ clickExit' = Some("threw before the listener")
    /\ UNCHANGED <<activeTabId, clickPc, listener, newTabId, notifications,
                   tabCount, openedByClick, requiredTab, dropped,
                   nonClickVars>>

\* executeSingleAction(step, activeTabId) for a click: handleClick registers
\* its listener and starts the click script in the tab
ClickStart ==
    /\ clickPc = "idle"
    /\ Len(tabCalls) < MaxCalls
    /\ tabCalls' = Append(tabCalls, TabCall("click"))
    /\ newTabId' = None
    /\ listener' = Some(activeTabId)
    /\ openedByClick' = None
    /\ clickPc' = "script"
    /\ clickExit' = None
    /\ UNCHANGED <<activeTabId, notifications, tabCount, requiredTab, dropped,
                   nonClickVars>>

\* the page reacts to the click by opening a tab: the browser creates it, with
\* the clicked tab as its opener, and queues the onCreated event
ClickOpensTab ==
    /\ clickPc = "script"
    /\ openedByClick = None
    /\ tabCount < MaxTabs
    /\ tabCount' = tabCount + 1
    /\ notifications' = Append(notifications, Tab(tabCount + 1, listener[1]))
    /\ openedByClick' = Some(tabCount + 1)
    /\ requiredTab' = tabCount + 1
    /\ UNCHANGED <<activeTabId, clickPc, listener, newTabId, dropped, tabCalls,
                   clickExit, nonClickVars>>

\* a tab is opened from a tab other than the active one (by the user, or by
\* a page left behind)
OtherTabOpens(opener) ==
    /\ opener # activeTabId
    /\ tabCount < MaxTabs
    /\ tabCount' = tabCount + 1
    /\ notifications' = Append(notifications, Tab(tabCount + 1, opener))
    /\ UNCHANGED <<activeTabId, clickPc, listener, newTabId, openedByClick,
                   requiredTab, dropped, tabCalls, clickExit, nonClickVars>>

\* the browser dispatches the oldest onCreated event: newTabListener runs if
\* it is registered at that moment
DispatchCreated ==
    /\ notifications # <<>>
    /\ LET newTab == Head(notifications)
       IN IF listener # None
          THEN /\ newTabId' = NewTabListener(listener[1], newTab, newTabId)
               /\ UNCHANGED dropped
          ELSE /\ dropped' = dropped \cup {newTab.id}
               /\ UNCHANGED newTabId
    /\ notifications' = Tail(notifications)
    /\ UNCHANGED <<activeTabId, clickPc, listener, tabCount, openedByClick,
                   requiredTab, tabCalls, clickExit, nonClickVars>>

\* mutant: a rejected call sends the engine back to the plan's first tab
TabAfterRejection_Reset(tabId) == FirstTab

\* executeSingleAction rejected: the assignment activeTabId = ....tabId is
\* not reached
TabAfterRejection(tabId) == tabId

\* mutant: the listener stays registered
AfterFinally_Kept(registered) == registered

\* finally { chrome.tabs.onCreated.removeListener(newTabListener) }
AfterFinally(registered) == None

\* the click script resolves with a success in some frame: the listener is
\* removed; without a detected tab handleClick returns tabId at once, with
\* one it first awaits the 1000 ms timer
ClickSucceeds ==
    /\ clickPc = "script"
    /\ listener' = AfterFinally(listener)
    /\ IF newTabId # None
       THEN /\ clickPc' = "settle"
            /\ UNCHANGED <<activeTabId, clickExit>>
       ELSE /\ clickExit' = Some("returned")
            /\ activeTabId' = ClickResult(listener[1], newTabId)
            /\ clickPc' = "idle"
    /\ UNCHANGED <<newTabId, notifications, tabCount, openedByClick,
                   requiredTab, dropped, tabCalls, nonClickVars>>

\* the 1000 ms timer fires: handleClick returns newTabId and the engine
\* adopts it
ClickReturns ==
    /\ clickPc = "settle"
    /\ clickExit' = Some("returned")
    /\ activeTabId' = ClickResult(activeTabId, newTabId)
    /\ clickPc' = "idle"
    /\ UNCHANGED <<listener, newTabId, notifications, tabCount, openedByClick,
                   requiredTab, dropped, tabCalls, nonClickVars>>

\* the click script finds nothing to click (no frame succeeded), or
\* executeScript rejects: the listener is removed and handleClick throws,
\* whatever newTabId holds; the active tab stays
ClickFails ==
    /\ clickPc = "script"
    /\ activeTabId' = TabAfterRejection(activeTabId)
    /\ listener' = AfterFinally(listener)
    /\ \E path \in {"no frame succeeded", "injection threw"} :
          clickExit' = Some(path)
    /\ clickPc' = "idle"
    /\ UNCHANGED <<newTabId, notifications, tabCount,
                   openedByClick, requiredTab, dropped, tabCalls, nonClickVars>>

NextClick ==
    \/ ExecuteOtherAction
    \/ Troubleshoot
    \/ ClickThrowsEarly
    \/ ClickStart
    \/ ClickOpensTab
    \/ \E opener \in 0..MaxTabs : OtherTabOpens(opener)
    \/ DispatchCreated
    \/ ClickSucceeds
    \/ ClickReturns
    \/ ClickFails

InitClick ==
    /\ ExecInit(<<>>)
    /\ DispIdle
    /\ NavIdle
    /\ RetryIdle
    /\ PanelInit
    /\ DomIdle
    /\ ClickInit
    /\ RecoveryIdle
    /\ ParseIdle
    /\ MergeIdle

\* one run of executePlanSteps seen as its calls of executeSingleAction
SpecClick == InitClick /\ [][NextClick]_vars

\* C15 -- once a click has opened a tab whose opener is the active tab, every
\* later call of executeSingleAction is given the new tab, whenever the
\* onCreated event is dispatched relative to the end of the click script.
C15_NewTabTargeted ==
    \A n \in 1..Len(tabCalls) : tabCalls[n].tabId = tabCalls[n].requiredTab

\* C34 -- the engine's active tab changes only in the step in which a click
\* returns successfully, and then to the tab handleClick returned; calls of
\* other actions, clicks that throw, the recovery protocol and the browser's
\* own events leave it as it is.
C34_TabChangesOnlyOnClick ==
    [][activeTabId' # activeTabId =>
          /\ clickPc \in {"script", "settle"}
          /\ clickPc' = "idle"
          /\ clickExit' = Some("returned")
          /\ newTabId # None
          /\ activeTabId' = newTabId[1]]_vars

\* a click has returned and moved the engine to the tab it opened; calls of
\* another action and of the recovery protocol were made as well
C34_Witness ==
    /\ clickExit = Some("returned")
    /\ activeTabId # FirstTab
    /\ \E n \in DOMAIN tabCalls : tabCalls[n].action = "other"
    /\ \E n \in DOMAIN tabCalls : tabCalls[n].action = "troubleshoot"

\* a click threw after an earlier one had moved the engine to another tab:
\* the engine stays on that tab
C34_WitnessFailedClick ==
    /\ clickExit = Some("no frame succeeded")
    /\ activeTabId # FirstTab

\* a click threw although its listener had detected a tab opened from the
\* active tab: the detected tab is discarded, the engine stays
C34_WitnessFailedAfterDetection ==
    /\ clickExit = Some("injection threw")
    /\ newTabId # None
    /\ activeTabId = FirstTab
    /\ newTabId[1] # activeTabId

\* C28 -- the tab-creation listener of handleClick is registered for as long
\* as the click script runs, and none is registered once handleClick has
\* returned or thrown, whichever way it ended: the click succeeded, no frame
\* succeeded, executeScript threw, or it threw before registering one.
C28_ListenerRemoved ==
    /\ clickPc = "script" => listener # None
    /\ clickPc \in {"idle", "settle"} => listener = None
    /\ clickExit # None => listener = None

\* handleClick threw because executeScript threw, and no listener is left
C28_Witness ==
    /\ clickExit = Some("injection threw")
    /\ clickPc = "idle"
    /\ listener = None

\* handleClick threw because no frame succeeded
C28_WitnessNoFrame ==
    /\ clickExit = Some("no frame succeeded")
    /\ listener = None

\* handleClick returned after a click that opened a tab
C28_WitnessReturned ==
    /\ clickExit = Some("returned")
    /\ openedByClick # None
    /\ listener = None

\* handleClick awaits its 1000 ms timer after a click that opened a tab: the
\* listener is gone already and an event of a further tab found none
C28_WitnessSettling ==
    /\ clickPc = "settle"
    /\ listener = None
    /\ dropped # {}

\* the click script is running with the listener registered
C28_WitnessRegistered ==
    /\ clickPc = "script"
    /\ listener # None

(* --------------------------- troubleshootWithLLM ---------------------- *)

\* heuristicsMap, cut down to one semantic target with two selectors
HeuristicsMap == [search_input |-> <<"#prompt-textarea", "textarea.gLFyf">>]

\* the selectors the model's candidates and heuristics use
Selectors == {"#a", "#prompt-textarea", "textarea.gLFyf"}

\* the pages a tab can show
Pages == [Frames -> SUBSET Selectors]

\* the candidate steps of the model: one with a selector, one with a semantic
\* target heuristicsMap knows, one with a target it does not know, and one
\* with neither (a navigate)
SuggestedSteps ==
    {Step("click", Undefined, "#a"),
     Step("click", "search_input", Undefined),
     Step("click", "submit_link", Undefined),
     Step("navigate", Undefined, Undefined)}

\* the lists getTroubleshootingSuggestion can resolve to
SuggestedLists == UNION {[1..n -> SuggestedSteps] : n \in 0..MaxSuggested}

\* JavaScript truthiness of a string-or-undefined
Truthy(x) == x # Undefined /\ x # ""

\* heuristicsMap[name] is defined
HasHeuristics(name) == name \in DOMAIN HeuristicsMap

\* the selector the existence check probes for a candidate, <<>> when the
\* candidate is kept unchecked (lines 161-171 and 197-200)
SelectorToCheck(candidate) ==
    IF Truthy(candidate.selector) THEN Some(candidate.selector)
    ELSE IF Truthy(candidate.target) /\ HasHeuristics(candidate.target)
         THEN Some(HeuristicsMap[candidate.target][1])
         ELSE None

\* results.some(r => r.result?.exists), each frame running
\* checkSelectorExistence
ExistsInAnyFrame(pg, selector) == \E f \in Frames : selector \in pg[f]

\* mutant: the catch block rethrows
OnTroubleshootError_Rethrow == Threw

\* catch (troubleshootError) { return []; }
OnTroubleshootError == Returned(<<>>)

\* mutant: unshift instead of push
Keep_Front(viable, candidate) == <<candidate>> \o viable

\* viableCandidates.push(candidate)
Keep(viable, candidate) == Append(viable, candidate)

\* await chrome.storage.local.get: it rejects, or it resolves with or without
\* a key; without one troubleshootWithLLM returns []
StorageGet(outcome) ==
    /\ tsPc = "storage"
    /\ CASE outcome = "key" ->
               tsPc' = "capture" /\ UNCHANGED <<tsOutcome, faults>>
         [] outcome = "no key" ->
               /\ tsPc' = "done"
               /\ tsOutcome' = Returned(<<>>)
               /\ faults' = faults \cup {"no key"}
         [] outcome = "error" ->
               /\ tsPc' = "done"
               /\ tsOutcome' = OnTroubleshootError
               /\ faults' = faults \cup {"storage"}
    /\ UNCHANGED <<page, suggested, candPos, viableCandidates, keptAt,
                   probeFailedAt, nonRecoveryVars>>

\* await Promise.all([capturePageHTML, captureScreenshot]): it rejects when
\* either capture rejects
Capture(htmlOk, screenshotOk) ==
    /\ tsPc = "capture"
    /\ IF htmlOk /\ screenshotOk
       THEN tsPc' = "suggest" /\ UNCHANGED <<tsOutcome, faults>>
       ELSE /\ tsPc' = "done"
            /\ tsOutcome' = OnTroubleshootError
            /\ faults' = faults \cup {"capture"}
    /\ UNCHANGED <<page, suggested, candPos, viableCandidates, keptAt,
                   probeFailedAt, nonRecoveryVars>>

\* await getTroubleshootingSuggestion rejects (the API call failed)
SuggestFails ==
    /\ tsPc = "suggest"
    /\ tsPc' = "done"
    /\ tsOutcome' = OnTroubleshootError
    /\ faults' = faults \cup {"service"}
    /\ UNCHANGED <<page, suggested, candPos, viableCandidates, keptAt,
                   probeFailedAt, nonRecoveryVars>>

\* await getTroubleshootingSuggestion resolves to list; an empty one is
\* returned at once
SuggestResolves(list) ==
    /\ tsPc = "suggest"
    /\ suggested' = list
    /\ IF Len(list) = 0
       THEN /\ tsPc' = "done"
            /\ tsOutcome' = Returned(<<>>)
            /\ UNCHANGED candPos
       ELSE /\ tsPc' = "filter"
            /\ candPos' = 1
            /\ UNCHANGED tsOutcome
    /\ UNCHANGED <<page, viableCandidates, faults, keptAt, probeFailedAt,
                   nonRecoveryVars>>

\* the filter loop takes a candidate that has nothing to probe: it is kept
KeepUnchecked ==
    /\ tsPc = "filter"
    /\ candPos <= Len(suggested)
    /\ SelectorToCheck(suggested[candPos]) = None
    /\ viableCandidates' = Keep(viableCandidates, suggested[candPos])
    /\ keptAt' = Append(keptAt, candPos)
    /\ candPos' = candPos + 1
    /\ UNCHANGED <<tsPc, page, suggested, tsOutcome, faults, probeFailedAt,
                   nonRecoveryVars>>

\* the filter loop takes a candidate with a selector to probe: the probe
\* (executeScript in all frames) resolves, and the candidate is kept if the
\* selector exists in some frame
ProbeResolves ==
    /\ tsPc = "filter"
    /\ candPos <= Len(suggested)
    /\ SelectorToCheck(suggested[candPos]) # None
    /\ IF ExistsInAnyFrame(page, SelectorToCheck(suggested[candPos])[1])
       THEN /\ viableCandidates' = Keep(viableCandidates, suggested[candPos])
            /\ keptAt' = Append(keptAt, candPos)
       ELSE UNCHANGED <<viableCandidates, keptAt>>
    /\ candPos' = candPos + 1
    /\ UNCHANGED <<tsPc, page, suggested, tsOutcome, faults, probeFailedAt,
                   nonRecoveryVars>>

\* the probe rejects: the candidate is discarded and the loop goes on
ProbeRejects ==
    /\ tsPc = "filter"
    /\ candPos <= Len(suggested)
    /\ SelectorToCheck(suggested[candPos]) # None
    /\ faults' = faults \cup {"probe"}
    /\ probeFailedAt' = probeFailedAt \cup {candPos}
    /\ candPos' = candPos + 1
    /\ UNCHANGED <<tsPc, page, suggested, viableCandidates, tsOutcome, keptAt,
                   nonRecoveryVars>>

\* after the loop: return viableCandidates
ReturnViable ==
    /\ tsPc = "filter"
    /\ candPos > Len(suggested)
    /\ tsPc' = "done"
    /\ tsOutcome' = Returned(viableCandidates)
    /\ UNCHANGED <<page, suggested, candPos, viableCandidates, faults, keptAt,
                   probeFailedAt, nonRecoveryVars>>

\* withRetry: const fallbackCandidates = await onFail(lastError), and the
\* throw that follows
ResolveOnFail ==
    /\ tsPc = "done"
    /\ tsOutcome.kind = "returned"
    /\ OnFail(tsOutcome.value)

\* the step withRetry runs in the model of troubleshootWithLLM
FailingStep == ClickStep(FALSE, None)

\* executePlanSteps, for the one-step plan of FailingStep, at the point where
\* the three attempts have failed, the last one with err, and withRetry is
\* about to call onFail
ExecAtOnFail(err) ==
    /\ plan = <<FailingStep>>
    /\ pc = "attempt"
    /\ formattedPlan = FormatPlan(<<FailingStep>>)
    /\ stepIdx = 1
    /\ attempts = MAX_STEP_RETRIES
    /\ i = MAX_STEP_RETRIES + 1
    /\ lastError = err
    /\ rejection = NoRejection
    /\ candIdx = 0
    /\ fallbackSucceeded = FALSE
    /\ lastFallbackResult = None
    /\ stepResultPayload = StepResult(FALSE, Undefined, None)
    /\ overallSuccess = TRUE
    /\ finalErrorMessage = Undefined
    /\ sent = <<PlanReceivedMsg(FormatPlan(<<FailingStep>>))>>
    /\ invokedSteps = {0}
    /\ recoveredSteps = {}
    /\ outcomes = [n \in 1..MAX_STEP_RETRIES |->
                      [rank |-> 0, candidate |-> None, outcome |-> err, at |-> 1]]
    /\ yielded = <<>>
    /\ inProgress = 0

InitRecovery ==
    /\ \E err \in Errors : ExecAtOnFail(err)
    /\ DispIdle
    /\ NavIdle
    /\ RetryIdle
    /\ PanelInit
    /\ DomIdle
    /\ ClickIdle
    /\ \E pg \in Pages : RecoveryInit(pg)
    /\ ParseIdle
    /\ MergeIdle

NextRecovery ==
    \/ \E outcome \in {"key", "no key", "error"} : StorageGet(outcome)
    \/ \E htmlOk, screenshotOk \in BOOLEAN : Capture(htmlOk, screenshotOk)
    \/ SuggestFails
    \/ \E list \in SuggestedLists : SuggestResolves(list)
    \/ KeepUnchecked
    \/ ProbeResolves
    \/ ProbeRejects
    \/ ReturnViable
    \/ ResolveOnFail
    \/ CatchFailure

\* a failed step's recovery, from the call of onFail to the catch block of
\* executePlanSteps
SpecRecovery == InitRecovery /\ [][NextRecovery]_vars

\* the faults that end troubleshootWithLLM before it has any candidate
EarlyFaults == {"no key", "storage", "capture", "service"}

\* C16 -- troubleshootWithLLM never throws: on a missing API key, a failed
\* storage read, a failed capture or a failed service call it returns the
\* empty list, and on a failed probe it returns the list without the probed
\* candidate; withRetry then rejects with the action's own last error, and
\* with the empty list the step ends as one with zero candidates: its result
\* is that error without fallback, and the plan halts at it.
C16_RecoveryNeverFaults ==
    /\ tsOutcome.kind # "threw"
    /\ tsPc = "done" =>
           /\ tsOutcome.kind = "returned"
           /\ faults \cap EarlyFaults # {} => tsOutcome.value = <<>>
           /\ \A k \in probeFailedAt : \A n \in 1..Len(keptAt) : keptAt[n] # k
    /\ pc \in {"catch", "fallback", "final"} =>
           /\ tsPc = "done"
           /\ rejection = Rejection(tsOutcome.value, lastError)
    /\ pc \in {"fallback", "final"} =>
           /\ stepResultPayload = StepResult(FALSE, ErrorMessage(lastError), None)
           /\ sent[Len(sent)] =
                  PlanStepResultMsg(FALSE, 0, StepResult(FALSE, ErrorMessage(lastError), None))
           /\ pc = "final" <=> tsOutcome.value = <<>>
    /\ pc = "final" =>
           /\ finalErrorMessage = ErrorMessage(lastError)
           /\ ~overallSuccess
           /\ HaltsPlan(stepResultPayload, CurStep)

\* C16 witness: the service call failed after three attempts that ended with
\* "e2", and the step has ended with that error and no fallback.
C16_Witness ==
    /\ pc = "final"
    /\ faults = {"service"}
    /\ lastError = "e2"
    /\ stepResultPayload = StepResult(FALSE, "e2", None)

\* C16 witness (probe): the probe of the first of two candidates rejected and
\* the second candidate was returned.
C16_WitnessProbe ==
    /\ pc = "fallback"
    /\ probeFailedAt = {1}
    /\ Len(suggested) = 2
    /\ rejection.candidates = <<suggested[2]>>

\* the candidate has neither a selector nor a target
NoIdentifier(candidate) == ~Truthy(candidate.selector) /\ ~Truthy(candidate.target)

\* the positions kept so far
KeptPositions == {keptAt[n] : n \in 1..Len(keptAt)}

\* sub is a subsequence of full: its elements are elements of full at
\* strictly increasing positions
IsSubsequence(sub, full) ==
    \E at \in [1..Len(sub) -> 1..Len(full)] :
        /\ \A n \in 1..Len(sub) : sub[n] = full[at[n]]
        /\ \A n, m \in 1..Len(sub) : n < m => at[n] < at[m]

\* C18 -- the list existence filtering returns is a subsequence of the
\* service's list, in the same relative order, with nothing added or
\* duplicated, and every candidate with neither selector nor target is in it.
C18_FilterKeepsOrder ==
    /\ IsSubsequence(viableCandidates, suggested)
    /\ Len(viableCandidates) = Len(keptAt)
    /\ \A n \in 1..Len(keptAt) :
           /\ keptAt[n] \in 1..Len(suggested)
           /\ viableCandidates[n] = suggested[keptAt[n]]
           /\ \A m \in 1..Len(keptAt) : n < m => keptAt[n] < keptAt[m]
    /\ \A k \in 1..(candPos - 1) : NoIdentifier(suggested[k]) => k \in KeptPositions
    /\ (tsPc = "done" /\ suggested # <<>>) =>
           /\ candPos = Len(suggested) + 1
           /\ tsOutcome = Returned(viableCandidates)

\* C18 witness: two different candidates, the second with neither selector
\* nor target, were both kept and returned in the service's order.
C18_Witness ==
    /\ tsPc = "done"
    /\ Len(suggested) = 2
    /\ suggested[1] # suggested[2]
    /\ NoIdentifier(suggested[2])
    /\ keptAt = <<1, 2>>
    /\ tsOutcome.value = suggested

\* C18 witness (discard): the first of two candidates was discarded.
C18_WitnessDiscard ==
    /\ tsPc = "done"
    /\ Len(suggested) = 2
    /\ keptAt = <<2>>
    /\ probeFailedAt = {}
    /\ tsOutcome.value = <<suggested[2]>>

\* some heuristic selector of the semantic target matches in some frame
AnyHeuristicExists(pg, target) ==
    \E h \in 1..Len(HeuristicsMap[target]) :
        ExistsInAnyFrame(pg, HeuristicsMap[target][h])

\* C19 -- of the candidates whose probe did not reject: one with a selector
\* is kept if and only if the selector matches an element in some frame, and
\* one with a semantic target is kept whenever any heuristic selector of the
\* target matches an element in some frame.
C19_KeptIffResolves ==
    \A k \in 1..(candPos - 1) :
        k \notin probeFailedAt =>
            LET candidate == suggested[k]
            IN /\ Truthy(candidate.selector) =>
                      (k \in KeptPositions
                          <=> ExistsInAnyFrame(page, candidate.selector))
               /\ (~Truthy(candidate.selector) /\ Truthy(candidate.target)
                      /\ HasHeuristics(candidate.target)
                      /\ AnyHeuristicExists(page, candidate.target))
                  => k \in KeptPositions

(* ----------------- getTroubleshootingSuggestion: parsing -------------- *)

\* A text is modelled as the sequence of its tokens; the text is their
\* concatenation, with three backticks for FenceClose and three backticks
\* and the word json for FenceOpen. The texts of the model hold no nested
\* arrays.
FenceOpen == "<fence>json"
FenceClose == "<fence>"
Newline == "\n"
Prose == "Try these:"

\* JSON texts of objects with an action
StepTexts == {"{\"action\":\"click\"}", "{\"action\":\"wait\"}"}

\* JSON texts of values that are no object with an action
OtherValueTexts == {"{}", "null"}

ValueTexts == StepTexts \cup OtherValueTexts

\* the element lists of the arrays in the model's responses
ElementLists == UNION {[1..n -> ValueTexts] : n \in 0..MaxElements}

RECURSIVE Join(_, _)
\* the texts of elems with sep between them
Join(elems, sep) ==
    IF Len(elems) = 0 THEN <<>>
    ELSE IF Len(elems) = 1 THEN <<elems[1]>>
    ELSE <<elems[1]>> \o sep \o Join(Tail(elems), sep)

\* the text of a JSON array of elems, on one line or one element per line
ArrayText(elems, multiline) ==
    IF multiline
    THEN <<"[", Newline>> \o Join(elems, <<",", Newline>>) \o <<Newline, "]">>
    ELSE <<"[">> \o Join(elems, <<",">>) \o <<"]">>

\* the same with a comma before the closing bracket: not JSON
MalformedArrayText(elems, multiline) ==
    IF multiline
    THEN <<"[", Newline>> \o Join(elems, <<",", Newline>>) \o <<",", Newline, "]">>
    ELSE <<"[">> \o Join(elems, <<",">>) \o <<",", "]">>

\* body in a fenced block opened by `open`, with or without prose around it
Fenced(open, body, pre, post) ==
    (IF pre THEN <<Prose, Newline>> ELSE <<>>)
        \o <<open, Newline>> \o body \o <<Newline, FenceClose>>
        \o (IF post THEN <<Newline, Prose>> ELSE <<>>)

\* the text of a response
Render(r) ==
    CASE r.kind = "null" -> None
      [] r.kind = "empty" -> Some(<<>>)
      [] r.kind = "fenced" ->
            Some(Fenced(FenceOpen, ArrayText(r.elems, r.multiline), r.pre, r.post))
      [] r.kind = "fencedMalformed" ->
            Some(Fenced(FenceOpen, MalformedArrayText(r.elems, r.multiline),
                        r.pre, r.post))
      [] r.kind = "fencedObject" ->
            Some(Fenced(FenceOpen, <<r.elems[1]>>, r.pre, r.post))
      [] r.kind = "untagged" ->
            Some(Fenced(FenceClose, ArrayText(r.elems, r.multiline), r.pre, r.post))
      [] r.kind = "raw" -> Some(ArrayText(r.elems, r.multiline))
      [] r.kind = "rawMalformed" -> Some(MalformedArrayText(r.elems, r.multiline))
      [] r.kind = "rawObject" -> Some(<<r.elems[1]>>)
      [] r.kind = "prose" -> Some(<<Prose>>)

\* the model's responses
Responses ==
    {NullResponse,
     Response("empty", <<>>, FALSE, FALSE, FALSE),
     Response("prose", <<>>, FALSE, FALSE, FALSE)}
    \cup {Response(kind, elems, multiline, pre, post) :
              kind \in {"fenced", "fencedMalformed", "untagged"},
              elems \in ElementLists, multiline \in BOOLEAN,
              pre \in BOOLEAN, post \in BOOLEAN}
    \cup {Response(kind, elems, multiline, FALSE, FALSE) :
              kind \in {"raw", "rawMalformed"},
              elems \in ElementLists, multiline \in BOOLEAN}
    \cup {Response("fencedObject", <<v>>, FALSE, pre, post) :
              v \in ValueTexts, pre \in BOOLEAN, post \in BOOLEAN}
    \cup {Response("rawObject", <<v>>, FALSE, FALSE, FALSE) : v \in ValueTexts}

\* !content
NoContent(c) == c = None \/ c[1] = <<>>

\* text[p] starts with three backticks
IsFence(text, p) == text[p] = FenceClose \/ text[p] = FenceOpen

\* the first position at or after `from` where "]" is followed by a newline
\* and a fence, 0 when there is none
BlockEnds(text, from) ==
    {q \in from..(Len(text) - 2) :
        text[q] = "]" /\ text[q + 1] = Newline /\ IsFence(text, q + 2)}

\* the positions where "```json", a newline and "[" follow one another and
\* some "]", newline, fence comes after
BlockStarts(text) ==
    {p \in 1..(Len(text) - 2) :
        /\ text[p] = FenceOpen /\ text[p + 1] = Newline /\ text[p + 2] = "["
        /\ BlockEnds(text, p + 3) # {}}

\* content.match(/```json\n(\[.*?\])\n```/s): the first group of the
\* leftmost match, the shortest one from there; <<>> when nothing matches
JsonMatch(text) ==
    IF BlockStarts(text) = {} THEN None
    ELSE LET p == MinOf(BlockStarts(text))
             q == MinOf(BlockEnds(text, p + 3))
         IN Some(SubSeq(text, p + 2, q))

IsNotNewline(token) == token # Newline

\* items is empty or values separated by commas
IsItemList(items) ==
    \/ items = <<>>
    \/ /\ Len(items) % 2 = 1
       /\ \A n \in 1..Len(items) :
              IF n % 2 = 1 THEN items[n] \in ValueTexts ELSE items[n] = ","

\* JSON.parse(text): <<>> when it throws a SyntaxError, else the value: an
\* array with its elements, or something that is no array
JsonParse(text) ==
    LET tokens == SelectSeq(text, IsNotNewline)
        n == Len(tokens)
    IN IF n = 1 /\ tokens[1] \in ValueTexts
       THEN Some([isArray |-> FALSE, elems |-> <<>>])
       ELSE IF n >= 2 /\ tokens[1] = "[" /\ tokens[n] = "]"
                 /\ IsItemList(SubSeq(tokens, 2, n - 1))
            THEN Some([isArray |-> TRUE,
                       elems |-> SelectSeq(SubSeq(tokens, 2, n - 1),
                                           LAMBDA t : t # ",")])
            ELSE None

\* typeof step === 'object' && step !== null && step.action
IsStepObject(value) == value \in StepTexts

\* parsed.filter(step => ...)
FilterSteps(elems) == SelectSeq(elems, IsStepObject)

\* mutant: a block that does not parse is a fault
OnBlockParseError_Throws(next) == Threw

\* catch (parseError) { console.warn(...) }: go on to the direct parse
OnBlockParseError(next) == next

\* the direct parse of the whole content (lines 210-223)
ParseDirect(text) ==
    LET parsedDirect == JsonParse(text)
    IN IF parsedDirect = None THEN Returned(<<>>)
       ELSE IF parsedDirect[1].isArray
            THEN Returned(FilterSteps(parsedDirect[1].elems))
            ELSE Returned(<<>>)

\* getTroubleshootingSuggestion from `const content` on (lines 185-223)
ParseSuggestion(c) ==
    IF NoContent(c) THEN Returned(<<>>)
    ELSE LET jsonMatch == JsonMatch(c[1])
         IN IF jsonMatch # None
            THEN LET parsedSteps == JsonParse(jsonMatch[1])
                 IN IF parsedSteps = None
                    THEN OnBlockParseError(ParseDirect(c[1]))
                    ELSE IF parsedSteps[1].isArray
                         THEN Returned(FilterSteps(parsedSteps[1].elems))
                         ELSE ParseDirect(c[1])
            ELSE ParseDirect(c[1])

\* the response is parsed
ParseResponse ==
    /\ parseOutcome = NotSettled
    /\ parseOutcome' = ParseSuggestion(content)
    /\ UNCHANGED <<response, content, nonParseVars>>

InitParse ==
    /\ ExecInit(<<>>)
    /\ DispIdle
    /\ NavIdle
    /\ RetryIdle
    /\ PanelInit
    /\ DomIdle
    /\ ClickIdle
    /\ RecoveryIdle
    /\ MergeIdle
    /\ \E r \in Responses :
           response = r /\ content = Render(r) /\ parseOutcome = NotSettled

NextParse == ParseResponse

\* getTroubleshootingSuggestion applied to each response of the model
SpecParse == InitParse /\ [][NextParse]_vars

\* the candidates a response holds: the elements of its array that are
\* objects with an action, when the array is in a "```json" block or is the
\* whole response
CandidatesOf(r) ==
    IF r.kind \in {"fenced", "raw"} THEN SelectSeq(r.elems, IsStepObject) ELSE <<>>

\* C17 -- parsing the response never raises, and it yields the candidates of
\* the fenced json block if that parses as a JSON array, else those of the
\* raw response if that parses as a JSON array, else the empty list; empty
\* content yields the empty list.
C17_ParseNeverRaises ==
    /\ parseOutcome.kind # "threw"
    /\ parseOutcome # NotSettled =>
           /\ parseOutcome = Returned(CandidatesOf(response))
           /\ response.kind \in {"null", "empty"} => parseOutcome.value = <<>>

\* C17 witness: a response with prose around a fenced block, whose array is
\* written over several lines and holds two different steps, was parsed into
\* these two steps.
C17_Witness ==
    /\ response.kind = "fenced"
    /\ response.pre /\ response.post /\ response.multiline
    /\ Len(parseOutcome.value) = 2
    /\ parseOutcome.value[1] # parseOutcome.value[2]
    /\ parseOutcome.value = response.elems

\* C17 witness (raw): a response that is a bare array was parsed into its
\* one step, the element without action left out.
C17_WitnessRaw ==
    /\ response.kind = "raw"
    /\ Len(response.elems) = 2
    /\ response.elems[1] = "{}"
    /\ parseOutcome = Returned(<<response.elems[2]>>)

\* C17 witness (malformed): a fenced block that is no JSON, holding a step,
\* was parsed into the empty list.
C17_WitnessMalformed ==
    /\ response.kind = "fencedMalformed"
    /\ Len(response.elems) = 1
    /\ IsStepObject(response.elems[1])
    /\ parseOutcome = Returned(<<>>)

(* -------------------- executing a fallback candidate ------------------ *)

\* the steps of the model: a click or a type, on a semantic target, on a
\* selector, on both or on neither
MergeSteps ==
    {Step(action, target, selector) :
        action \in {"click", "type"},
        target \in {Undefined, "search_input", "search_button"},
        selector \in {Undefined, "#a", "#b"}}

\* { ...step, ...candidate }: a field the candidate has replaces the step's
MergedStep(step, candidate) ==
    [f \in DOMAIN step |->
        IF candidate[f] # Undefined THEN candidate[f] ELSE step[f]]

\* what a handler looks the element up by:
\* identifier = step.target || step.selector, isSemantic = !!step.target
Resolution(step) ==
    [action |-> step.action,
     identifier |-> OrElse(step.target, step.selector),
     isSemantic |-> Truthy(step.target)]

\* const candidateToRun = { ...step, ...candidate };
\* executeSingleAction(candidateToRun, activeTabId)
RunCandidate ==
    /\ resolvedBy = None
    /\ resolvedBy' = Some(Resolution(MergedStep(originalStep, candidateStep)))
    /\ UNCHANGED <<originalStep, candidateStep, nonMergeVars>>

InitMerge ==
    /\ ExecInit(<<>>)
    /\ DispIdle
    /\ NavIdle
    /\ RetryIdle
    /\ PanelInit
    /\ DomIdle
    /\ ClickIdle
    /\ RecoveryIdle
    /\ ParseIdle
    /\ \E original, candidate \in MergeSteps : MergeInit(original, candidate)

NextMerge == RunCandidate

\* one fallback candidate executed in place of a failed step
SpecMerge == InitMerge /\ [][NextMerge]_vars

\* C20 -- when a fallback candidate is executed, the merged step has the
\* candidate's action, and a candidate that names its element (by selector
\* or by semantic target) has the element looked up by its own identifier,
\* not by the original step's.
C20_CandidateIdentifierUsed ==
    resolvedBy # None =>
        /\ resolvedBy[1].action = candidateStep.action
        /\ ~NoIdentifier(candidateStep) =>
               /\ resolvedBy[1].identifier =
                      OrElse(candidateStep.target, candidateStep.selector)
               /\ resolvedBy[1].isSemantic = Truthy(candidateStep.target)

(* ---------------- the element resolver and the handlers --------------- *)

\* the selectors of the model's documents: the heuristics of search_input
DomSelectors == {"#prompt-textarea", "textarea.gLFyf"}

\* what the resolver can see of an element: the selector it matches (if
\* any) and the verdict of isElementVisibleAndInteractiveSource on it
Looks ==
    {[matches |-> m, visible |-> v] :
        m \in DomSelectors, v \in BOOLEAN}
    \cup {[matches |-> Undefined, visible |-> TRUE]}

\* a root (a document or a shadow root) is the sequence of its elements in
\* document order; an element has a shadow root or none
RECURSIVE RootsOf(_, _)
ElementsOf(depth) ==
    {[matches |-> l.matches, visible |-> l.visible, shadowRoot |-> sr] :
        l \in Looks,
        sr \in {None} \cup
               (IF depth = 0 THEN {}
                ELSE {Some(r) : r \in RootsOf(MaxShadowElements, depth - 1)})}

RootsOf(width, depth) == UNION {[1..n -> ElementsOf(depth)] : n \in 0..width}

\* the documents the resolver is run on
Documents == RootsOf(MaxDocElements, MaxShadowDepth)

\* the pages the handlers are run on: a main frame and an iframe
FramePages == [Frames -> RootsOf(MaxShadowElements, MaxShadowDepth - 1)]

\* executeScript returns the results of the frames main frame first
FrameOrder == <<"main", "iframe">>

\* the element at the path `path` under `rootNode`: path[1] is its position
\* in rootNode, or that of the host whose shadow root holds the rest
RECURSIVE ElementAt(_, _)
ElementAt(rootNode, path) ==
    IF Len(path) = 1 THEN rootNode[path[1]]
    ELSE ElementAt(rootNode[path[1]].shadowRoot[1], Tail(path))

\* mutant: the selector search stays in the root it is given
FindElementBySelector_NoShadow(sel, rootNode) ==
    LET own == {n \in DOMAIN rootNode :
                   rootNode[n].matches = sel /\ rootNode[n].visible}
    IN IF own # {} THEN Some(<<MinOf(own)>>) ELSE None

\* findElementBySelectorSource(sel, rootNode): the path of the element it
\* returns, <<>> for null
RECURSIVE FindElementBySelector(_, _)
FindElementBySelector(sel, rootNode) ==
    LET own == {n \in DOMAIN rootNode :
                   rootNode[n].matches = sel /\ rootNode[n].visible}
        foundInShadow(n) ==
            IF rootNode[n].shadowRoot = None THEN None
            ELSE FindElementBySelector(sel, rootNode[n].shadowRoot[1])
        hosts == {n \in DOMAIN rootNode : foundInShadow(n) # None}
    IN IF own # {} THEN Some(<<MinOf(own)>>)
       ELSE IF hosts # {}
            THEN Some(<<MinOf(hosts)>> \o foundInShadow(MinOf(hosts))[1])
            ELSE None

\* mutant: the elements are tried in document order, whichever selector of
\* the list they match
FindElementByHeuristics_DocumentOrder(targetType, rootNode) ==
    IF ~HasHeuristics(targetType) THEN None
    ELSE LET selectors == HeuristicsMap[targetType]
             own == {n \in DOMAIN rootNode :
                        /\ rootNode[n].visible
                        /\ \E k \in DOMAIN selectors :
                               rootNode[n].matches = selectors[k]}
         IN IF own # {} THEN Some(<<MinOf(own)>>) ELSE None

\* findElementByHeuristicsSource(targetType, rootNode, heuristics): the path
\* of the element it returns, <<>> for null
RECURSIVE FindElementByHeuristics(_, _)
FindElementByHeuristics(targetType, rootNode) ==
    IF ~HasHeuristics(targetType) THEN None
    ELSE LET selectors == HeuristicsMap[targetType]
             visibleFor(k) ==
                 {n \in DOMAIN rootNode :
                     /\ rootNode[n].matches = selectors[k]
                     /\ rootNode[n].visible}
             hits == {k \in DOMAIN selectors : visibleFor(k) # {}}
             foundInShadow(n) ==
                 IF rootNode[n].shadowRoot = None THEN None
                 ELSE FindElementByHeuristics(targetType,
                                              rootNode[n].shadowRoot[1])
             hosts == {n \in DOMAIN rootNode : foundInShadow(n) # None}
         IN IF hits # {} THEN Some(<<MinOf(visibleFor(MinOf(hits)))>>)
            ELSE IF hosts # {}
                 THEN Some(<<MinOf(hosts)>>
                           \o foundInShadow(MinOf(hosts))[1])
                 ELSE None

\* isSemantic ? _findElementByHeuristics(identifier, document, heuristics)
\*            : _findElementBySelector(identifier, document)
FindElement(identifier, isSemantic, document) ==
    IF isSemantic THEN FindElementByHeuristics(identifier, document)
    ELSE FindElementBySelector(identifier, document)

\* the resolver is run on the main document for the identifier of the step
FindInDocument ==
    /\ found = NotSettled
    /\ LET r == Resolution(request)
       IN found' = Returned(FindElement(r.identifier, r.isSemantic,
                                        dom["main"]))
    /\ UNCHANGED <<dom, request, frameResults, handled, slept, nonDomVars>>

\* the lookups the resolver is run for: a semantic target with heuristics,
\* one without, and each selector
Lookups ==
    {ActionStep("click", t, Undefined, None, None, None) :
        t \in {"search_input", "submit_link"}}
    \cup {ActionStep("click", Undefined, sel, None, None, None) :
              sel \in DomSelectors}

InitResolve ==
    /\ ExecInit(<<>>)
    /\ DispIdle
    /\ NavIdle
    /\ RetryIdle
    /\ PanelInit
    /\ ClickIdle
    /\ RecoveryIdle
    /\ ParseIdle
    /\ MergeIdle
    /\ \E d \in Documents, step \in Lookups :
           DomInit([f \in Frames |-> IF f = "main" THEN d ELSE <<>>], step)

NextResolve == FindInDocument

\* one run of the element resolver on a document
SpecResolve == InitResolve /\ [][NextResolve]_vars

\* the element at position n of the main document is a visible and
\* interactive match of the k-th heuristic selector of the step's target
VisibleMatch(n, k) ==
    /\ dom["main"][n].matches = HeuristicsMap[request.target][k]
    /\ dom["main"][n].visible

\* C24 -- selector priority: when some element of the root is a visible and
\* interactive match of a heuristic selector of the target, the resolver
\* returns the first such match, in document order, of the earliest selector
\* of the list that has one; an element of a later selector is returned only
\* when no earlier selector has a visible and interactive match.
C24_SelectorPriority ==
    (/\ found # NotSettled
     /\ Truthy(request.target)
     /\ HasHeuristics(request.target)
     /\ \E n \in DOMAIN dom["main"], k \in DOMAIN HeuristicsMap[request.target] :
            VisibleMatch(n, k))
    => /\ found.kind = "returned"
       /\ found.value # None
       /\ Len(found.value[1]) = 1
       /\ \E k \in DOMAIN HeuristicsMap[request.target] :
              /\ VisibleMatch(found.value[1][1], k)
              /\ \A n \in DOMAIN dom["main"] :
                     n < found.value[1][1] => ~VisibleMatch(n, k)
              /\ \A j \in DOMAIN HeuristicsMap[request.target] :
                     j < k => \A n \in DOMAIN dom["main"] : ~VisibleMatch(n, j)

\* only the second selector has a visible match (the first matches a hidden
\* element before it), and that match is what the resolver returned
C24_Witness ==
    /\ request.target = "search_input"
    /\ Len(dom["main"]) = 2
    /\ dom["main"][1].matches = HeuristicsMap["search_input"][1]
    /\ ~dom["main"][1].visible
    /\ VisibleMatch(2, 2)
    /\ found = Returned(Some(<<2>>))

\* the first selector's match comes later in the document than the second
\* selector's, and is returned all the same
C24_WitnessOrder ==
    /\ request.target = "search_input"
    /\ Len(dom["main"]) = 2
    /\ VisibleMatch(1, 2)
    /\ VisibleMatch(2, 1)
    /\ found = Returned(Some(<<2>>))

\* the selectors the step's identifier stands for
LookupSelectors(step) ==
    IF Truthy(step.target)
    THEN IF HasHeuristics(step.target)
         THEN {HeuristicsMap[step.target][k] :
                  k \in DOMAIN HeuristicsMap[step.target]}
         ELSE {}
    ELSE {step.selector}

\* some element under rootNode, in it or in a shadow root at any depth, is
\* a visible and interactive match of one of the selectors
RECURSIVE HasVisibleMatch(_, _)
HasVisibleMatch(rootNode, selectors) ==
    \E n \in DOMAIN rootNode :
        \/ rootNode[n].visible /\ rootNode[n].matches \in selectors
        \/ /\ rootNode[n].shadowRoot # None
           /\ HasVisibleMatch(rootNode[n].shadowRoot[1], selectors)

\* C25 -- shadow traversal: the resolver returns an element whenever a
\* visible and interactive match exists in the root or in a shadow root
\* nested at any depth under it, the element it returns is such a match, and
\* when there is none anywhere it returns null; it never raises.
C25_ShadowTraversal ==
    found # NotSettled
    => /\ found.kind = "returned"
       /\ found.value # None
              <=> HasVisibleMatch(dom["main"], LookupSelectors(request))
       /\ found.value # None
              => LET element == ElementAt(dom["main"], found.value[1])
                 IN /\ element.visible
                    /\ element.matches \in LookupSelectors(request)

\* the only match is in a shadow root whose host is itself in a shadow root,
\* and it is returned
C25_Witness ==
    /\ found.kind = "returned"
    /\ found.value # None
    /\ Len(found.value[1]) = 3
    /\ Len(dom["main"]) = 1

\* nothing matches anywhere in a document that has nested shadow roots: null
C25_WitnessNotFound ==
    /\ found = Returned(None)
    /\ Len(dom["main"]) = 1
    /\ dom["main"][1].shadowRoot # None
    /\ dom["main"][1].shadowRoot[1] # <<>>
    /\ dom["main"][1].shadowRoot[1][1].shadowRoot # None
    /\ dom["main"][1].shadowRoot[1][1].shadowRoot[1] # <<>>

(* ------------------------- the action handlers ------------------------ *)

\* throw new Error(...): the message, as the sequence of its parts
Thrown(message) == [kind |-> "threw", value |-> message]

\* what the injected function returns in one frame: { success, error }, with
\* the element it acted on and the events it dispatched on it
FrameResult(success, error, element, events) ==
    [success |-> success, error |-> error, element |-> element,
     events |-> events]

\* the events actionCoreLogic dispatches on the element for a type action:
\* input and change for the clearing, an input per character, change, the
\* Enter keydown
TypeEvents(text) ==
    <<"input", "change">> \o [n \in 1..Len(text) |-> "input"]
        \o <<"change", "keydown Enter">>

\* actionCoreLogic(actionType, identifier, isSemantic, text, heuristics) in
\* the frame showing `document`
ActionCoreLogic(actionType, identifier, isSemantic, text, document) ==
    LET element == FindElement(identifier, isSemantic, document)
    IN IF element = None
       THEN FrameResult(FALSE, "Element not found in this frame", None, <<>>)
       ELSE IF ~ElementAt(document, element[1]).visible
       THEN FrameResult(FALSE,
                "Element found but not visible or interactive in this frame",
                element, <<>>)
       ELSE IF actionType = "type"
       THEN IF text = None
            THEN FrameResult(FALSE, "Text is required for type action",
                             element, <<>>)
            ELSE FrameResult(TRUE, Undefined, element, TypeEvents(text[1]))
       ELSE FrameResult(TRUE, Undefined, element, <<"click">>)

\* the selectors waitForElement hands to the injected wait
WaitSelectors(step) ==
    IF Truthy(step.target)
    THEN IF HasHeuristics(step.target) THEN HeuristicsMap[step.target]
         ELSE <<>>
    ELSE IF Truthy(step.selector) THEN <<step.selector>> ELSE <<>>

\* check() of waitForElementLogic on a document that does not change: some
\* selector has an element in the document or in the shadow root of one of
\* the document's elements
WaitForElementLogic(selectors, document) ==
    \E k \in DOMAIN selectors :
        \/ \E n \in DOMAIN document : document[n].matches = selectors[k]
        \/ \E n \in DOMAIN document :
               /\ document[n].shadowRoot # None
               /\ \E m \in DOMAIN document[n].shadowRoot[1] :
                      document[n].shadowRoot[1][m].matches = selectors[k]

\* waitForElement(tabId, step, timeout): <<>> when it returns, the message
\* when it throws; the injected wait runs in the main frame only
WaitForElement(pg, step) ==
    IF WaitSelectors(step) = <<>>
    THEN Some(<<"No selectors found for", OrElse(step.target, step.selector)>>)
    ELSE IF WaitForElementLogic(WaitSelectors(step), pg["main"])
         THEN None
         ELSE Some(<<"Timeout waiting for element existence">>)

\* results.find(r => r.result?.success)
AnySuccess(results) == \E f \in Frames : results[f].success

\* errorMsg of handleClick and handleType when no frame succeeded
AggregateError(results) ==
    LET failing == {k \in DOMAIN FrameOrder :
                       Truthy(results[FrameOrder[k]].error)}
    IN IF failing # {} THEN results[FrameOrder[MinOf(failing)]].error
       ELSE "Unknown script error or element not found"

\* handleClick(tabId, step), from its entry to the aggregate of the frames
\* (the tab-creation listener around the script is followed in SpecClick)
HandleClick ==
    /\ handled = NotSettled
    /\ request.action = "click"
    /\ LET r == Resolution(request)
           waitError == WaitForElement(dom, request)
           results == [f \in Frames |->
                          ActionCoreLogic("click", r.identifier, r.isSemantic,
                                          None, dom[f])]
       IN IF ~Truthy(request.selector) /\ ~Truthy(request.target)
          THEN /\ handled' = Thrown(
                      <<"Click step requires a valid target or selector.">>)
               /\ UNCHANGED frameResults
          ELSE IF waitError # None
          THEN /\ handled' = Thrown(waitError[1])
               /\ UNCHANGED frameResults
          ELSE /\ frameResults' = results
               /\ handled' =
                      IF AnySuccess(results) THEN Returned(<<>>)
                      ELSE Thrown(<<"Failed to execute click action",
                                    AggregateError(results)>>)
    /\ UNCHANGED <<dom, request, found, slept, nonDomVars>>

\* handleType(tabId, step)
HandleType ==
    /\ handled = NotSettled
    /\ request.action = "type"
    /\ LET r == Resolution(request)
           results == [f \in Frames |->
                          ActionCoreLogic("type", r.identifier, r.isSemantic,
                                          request.text, dom[f])]
       IN IF ~Truthy(request.selector) /\ ~Truthy(request.target)
          THEN /\ handled' = Thrown(
                      <<"Type step requires a valid target or selector.">>)
               /\ UNCHANGED frameResults
          ELSE IF request.text = None
          THEN /\ handled' = Thrown(
                      <<"Type step requires a string value for text.">>)
               /\ UNCHANGED frameResults
          ELSE /\ frameResults' = results
               /\ handled' =
                      IF AnySuccess(results) THEN Returned(<<>>)
                      ELSE Thrown(<<"Failed to execute type action",
                                    AggregateError(results)>>)
    /\ UNCHANGED <<dom, request, found, slept, nonDomVars>>

\* step.duration && typeof step.duration === 'number'
IsDuration(duration) ==
    /\ duration # None
    /\ duration[1].n # 0
    /\ duration[1].typeof = "number"

\* handleWait(tabId, step)
HandleWait ==
    /\ handled = NotSettled
    /\ request.action = "wait"
    /\ IF Truthy(request.selector) \/ Truthy(request.target)
       THEN /\ handled' =
                   IF WaitForElement(dom, request) = None THEN Returned(<<>>)
                   ELSE Thrown(WaitForElement(dom, request)[1])
            /\ UNCHANGED slept
       ELSE IF IsDuration(request.duration)
       THEN /\ slept' = Append(slept, request.duration[1].n)
            /\ handled' = Returned(<<>>)
       ELSE /\ handled' = Thrown(
               <<"Wait step requires a valid target, selector, or a numeric duration.">>)
            /\ UNCHANGED slept
    /\ UNCHANGED <<dom, request, found, frameResults, nonDomVars>>

\* the target and selector of the model's steps: a target with heuristics,
\* one without, a selector, both, neither
IdentifierPairs ==
    {<<"search_input", Undefined>>, <<"submit_link", Undefined>>,
     <<"search_input", "textarea.gLFyf">>, <<Undefined, Undefined>>}
    \cup {<<Undefined, sel>> : sel \in DomSelectors}

\* step.duration: absent, a number, or a string
Durations ==
    {None} \cup {Some([typeof |-> "number", n |-> n]) : n \in {0, 500}}
           \cup {Some([typeof |-> "string", n |-> 500])}

\* the steps the handlers are called with
HandlerSteps ==
    {ActionStep("click", id[1], id[2], None, None, None) :
        id \in IdentifierPairs}
    \cup {ActionStep("type", id[1], id[2], text, submit, None) :
              id \in IdentifierPairs,
              text \in {None, Some(<<"h", "i">>)},
              submit \in {None, Some(FALSE), Some(TRUE)}}
    \cup {ActionStep("wait", id[1], id[2], None, None, duration) :
              id \in IdentifierPairs, duration \in Durations}

InitHandlers ==
    /\ ExecInit(<<>>)
    /\ DispIdle
    /\ NavIdle
    /\ RetryIdle
    /\ PanelInit
    /\ ClickIdle
    /\ RecoveryIdle
    /\ ParseIdle
    /\ MergeIdle
    /\ \E pg \in FramePages, step \in HandlerSteps : DomInit(pg, step)

NextHandlers ==
    \/ HandleClick
    \/ HandleType
    \/ HandleWait

\* one call of a handler on a page
SpecHandlers == InitHandlers /\ [][NextHandlers]_vars

\* C21 -- frame aggregation for click: a click step that names its element
\* succeeds exactly when some frame of the tab, the main frame or another,
\* holds a visible and interactive element matching its target or selector.
C21_ClickAnyFrame ==
    (/\ handled # NotSettled
     /\ request.action = "click"
     /\ Truthy(request.target) \/ Truthy(request.selector))
    => (handled.kind = "returned"
            <=> \E f \in Frames :
                    HasVisibleMatch(dom[f], LookupSelectors(request)))

\* C29 -- the Enter keydown is dispatched on the element only for a type
\* step whose submit is true.
C29_EnterOnlyOnSubmit ==
    (handled # NotSettled /\ request.action = "type")
    => \A f \in DOMAIN frameResults :
           (\E n \in DOMAIN frameResults[f].events :
                frameResults[f].events[n] = "keydown Enter")
           => request.submit = Some(TRUE)

\* C30 -- a wait step fails with the missing-field error exactly when it has
\* no target, no selector and no numeric duration, and a wait step with only
\* a numeric duration (0 included) waits that long and succeeds.
C30_WaitMissingField ==
    (handled # NotSettled /\ request.action = "wait")
    => LET numeric == /\ request.duration # None
                      /\ request.duration[1].typeof = "number"
           named == Truthy(request.target) \/ Truthy(request.selector)
       IN /\ handled = Thrown(
                 <<"Wait step requires a valid target, selector, or a numeric duration.">>)
              <=> (~named /\ ~numeric)
          /\ (~named /\ numeric)
              => (handled = Returned(<<>>)
                  /\ slept = <<request.duration[1].n>>)

\* the resolver used by click and type returns an element in some frame
ResolverFinds(pg, step) ==
    \E f \in Frames :
        FindElement(Resolution(step).identifier, Resolution(step).isSemantic,
                    pg[f]) # None

\* C35 -- wait agrees with the resolver: on a page that does not change,
\* waitForElement reports the identifier of a step as found exactly when the
\* resolver run by click and type returns an element for it in some frame.
C35_WaitAgreesWithResolver ==
    (/\ handled # NotSettled
     /\ Truthy(request.target) \/ Truthy(request.selector))
    => (WaitForElement(dom, request) = None <=> ResolverFinds(dom, request))

(* ------------------------------ the panel ----------------------------- *)

\* the properties of a StepResult that reach the panel: sendMessage
\* serializes the message as JSON, which leaves out undefined properties
WireKeys(result) ==
    {"success"}
    \cup (IF result.error # Undefined THEN {"error"} ELSE {})
    \cup (IF result.fallback # None THEN {"fallback"} ELSE {})

\* message.result as the listener receives it
Wire(result) == [key \in WireKeys(result) |-> result[key]]

\* { ...a, ...b }
Spread(a, b) ==
    [key \in DOMAIN a \cup DOMAIN b |->
        IF key \in DOMAIN b THEN b[key] ELSE a[key]]

\* { ...(rs[message.stepId] || {}), ...message.result }
StoredResult(rs, stepId, result) ==
    Spread(IF stepId \in DOMAIN rs THEN rs[stepId] ELSE <<>>, result)

\* mutant: a panel without a current request lets every message in
Ignores_OnlyOtherId(message, requestId) ==
    /\ currentRequestId # None /\ currentRequestId # Some(requestId)
    /\ message.type \in {"planReceived", "planStepResult"}

\* the listener ignores the message: it is a plan message and the panel has
\* no current request, or another one
Ignores(message, requestId) ==
    /\ currentRequestId = None \/ currentRequestId # Some(requestId)
    /\ message.type \in {"planReceived", "planStepResult"}

\* messageListener(message) for a message of the engine carrying requestId
\* (planError is kept without its "Execution failed: " prefix)
MessageListener(message, requestId) ==
    IF Ignores(message, requestId)
    THEN UNCHANGED <<currentRequestId, planForDisplay, resultsStore,
                     isLoading, planError, applied>>
    ELSE /\ applied' = applied \cup {delivered + 1}
         /\ IF message.type = "planReceived"
            THEN /\ planForDisplay' = message.formattedPlan
                 /\ resultsStore' = <<>>
                 /\ planError' = ""
                 /\ UNCHANGED <<currentRequestId, isLoading>>
            ELSE LET result == Wire(message.result)
                     rs == resultsStore
                 IN /\ resultsStore' =
                           [id \in DOMAIN rs \cup {message.stepId} |->
                               IF id = message.stepId
                               THEN StoredResult(rs, id, result)
                               ELSE rs[id]]
                    /\ IF message.isFinal
                       THEN /\ isLoading' = FALSE
                            /\ currentRequestId' = None
                            /\ planError' =
                                   IF ~result.success /\ "error" \in DOMAIN result
                                   THEN result.error
                                   ELSE planError
                       ELSE UNCHANGED <<isLoading, currentRequestId, planError>>
                    /\ UNCHANGED planForDisplay

\* the runtime delivers the engine's next message to the panel
PanelReceive ==
    /\ delivered < Len(sent)
    /\ delivered' = delivered + 1
    /\ heard' = Some([requestId |-> RequestId, message |-> sent[delivered + 1]])
    /\ MessageListener(sent[delivered + 1], RequestId)
    /\ UNCHANGED nonPanelVars

\* the request id of an execution the panel did not start, or has left behind
OtherRequestId == "req-0"

\* plan messages of an execution that is not the panel's current one
StaleMessages ==
    {PlanReceivedMsg(FormatPlan(<<ClickStep(FALSE, None)>>)),
     PlanStepResultMsg(FALSE, 0, StepResult(TRUE, Undefined, None)),
     PlanStepResultMsg(TRUE, 0, StepResult(FALSE, "e1", None))}

\* the runtime delivers a plan message carrying a request id that is not the
\* panel's current one: that of another execution, or the panel's own after
\* the completion event has reset currentRequestId to null
PanelReceiveStale ==
    /\ \E requestId \in {RequestId, OtherRequestId}, message \in StaleMessages :
          /\ currentRequestId # Some(requestId)
          /\ heard' = Some([requestId |-> requestId, message |-> message])
          /\ MessageListener(message, requestId)
    /\ UNCHANGED <<delivered, nonPanelVars>>

NextPanel ==
    \/ Next
    \/ PanelReceive
    \/ PanelReceiveStale

\* executePlanSteps and the panel that submitted the plan
SpecPanel == Init /\ [][NextPanel]_vars

\* C22 -- events supersede: once the panel has applied a planStepResult
\* event for step id k, the result it stores for k is exactly that event's
\* result; no error or fallback of an earlier event for k is left in it
\* unless the later event carries it too.
C22_EventsSupersede ==
    (/\ delivered \in applied
     /\ sent[delivered].type = "planStepResult")
    => /\ sent[delivered].stepId \in DOMAIN resultsStore
       /\ resultsStore[sent[delivered].stepId] = Wire(sent[delivered].result)

\* step k has begun execution: the loop body has been entered for it
Begun(k) ==
    /\ k \in StepIds
    /\ \/ k + 1 < stepIdx
       \/ k + 1 = stepIdx /\ pc \notin {"start", "step"}

\* C23 -- a StepResult exists for a step id, in the per-step events the
\* engine has sent and in the panel's results store, only if that step has
\* begun execution: never under the id of a step after the one the plan
\* halted at, nor under an id that is not a step of the plan.
C23_ResultsOnlyForBegunSteps ==
    /\ \A n \in DOMAIN sent :
           (sent[n].type = "planStepResult" /\ ~sent[n].isFinal)
           => Begun(sent[n].stepId)
    /\ \A id \in DOMAIN resultsStore : Begun(id)

\* the panel has applied the completion event
CompletionApplied ==
    /\ pc = "done"
    /\ delivered = Len(sent)
    /\ delivered \in applied

\* C31 -- after the completion event has been applied by the panel, the
\* success flag the results store holds for every step that was given a final
\* per-step result equals the success flag of that result: the plan-level
\* outcome never overwrites a step's own outcome.
C31_StoreKeepsStepOutcome ==
    CompletionApplied =>
        \A k \in StepIds :
            Finished(k) =>
                /\ k \in DOMAIN resultsStore
                /\ resultsStore[k].success = FinalResultOf(k).success

\* C36 -- a planReceived or planStepResult message whose requestId is not
\* the panel's current request id when the listener is called with it (the
\* current id being another one, or null after the completion event) leaves
\* the displayed plan, the results store, the loading flag, the error text
\* and the current request id as they were.
C36_StaleMessagesIgnored ==
    [][(/\ heard' # None
        /\ heard' # heard \/ delivered' # delivered
        /\ currentRequestId # Some(heard'[1].requestId))
       => UNCHANGED <<planForDisplay, resultsStore, isLoading, planError,
                      currentRequestId>>]_vars

\* the completion event has been applied, and afterwards a final result with
\* the panel's own former request id arrived: the panel shows what the
\* completion left
C36_Witness ==
    /\ CompletionApplied
    /\ currentRequestId = None
    /\ heard = Some([requestId |-> RequestId,
                     message |-> PlanStepResultMsg(TRUE, 0,
                                     StepResult(FALSE, "e1", None))])
    /\ Len(formattedPlan) = 1
    /\ resultsStore[0] = [success |-> TRUE]
    /\ planError = ""
    /\ ~isLoading

\* while the plan runs a planReceived of another execution arrived: the
\* results gathered so far are still there
C36_WitnessOtherRequest ==
    /\ currentRequestId = Some(RequestId)
    /\ heard # None
    /\ heard[1].requestId = OtherRequestId
    /\ heard[1].message.type = "planReceived"
    /\ resultsStore # <<>>
    /\ Len(planForDisplay) = 2
    /\ isLoading

(* ------------------------ the waits of withRetry ---------------------- *)

\* the steps whose waits are followed: with or without a retryCount and a
\* retryDelayMs
RetrySteps ==
    [retryCount : {None} \cup {Some(n) : n \in (-1)..MaxAttempts},
     retryDelayMs : {None} \cup {Some(ms) : ms \in {0, 250, 500}}]

\* step.retryDelayMs ?? RETRY_DELAY_MS
DelayMs(step) ==
    IF step.retryDelayMs = None THEN RETRY_DELAY_MS ELSE step.retryDelayMs[1]

\* mutant: the same delay after every failed attempt
BackOff_Constant(n, att, delayMs) ==
    IF n < att THEN <<delayMs>> ELSE <<>>

\* if (i < attempts) await new Promise(res => setTimeout(res, delayMs * i)):
\* the delays awaited after failed attempt n
BackOff(n, att, delayMs) ==
    IF n < att THEN <<delayMs * n>> ELSE <<>>

\* an attempt rejects: the catch block waits, if attempts are left, and the
\* loop goes on
RetryAttemptFails ==
    /\ retryPc = "loop"
    /\ RetryLoopContinues(retryI, Attempts(retryStep))
    /\ waits' = waits \o BackOff(retryI, Attempts(retryStep), DelayMs(retryStep))
    /\ retryI' = retryI + 1
    /\ UNCHANGED <<retryStep, retryPc, nonRetryVars>>

\* an attempt resolves: return await action()
RetryAttemptSucceeds ==
    /\ retryPc = "loop"
    /\ RetryLoopContinues(retryI, Attempts(retryStep))
    /\ retryPc' = "returned"
    /\ UNCHANGED <<retryStep, retryI, waits, nonRetryVars>>

\* the loop ends: all retries exhausted
RetryExhausted ==
    /\ retryPc = "loop"
    /\ ~RetryLoopContinues(retryI, Attempts(retryStep))
    /\ retryPc' = "exhausted"
    /\ UNCHANGED <<retryStep, retryI, waits, nonRetryVars>>

InitRetry ==
    /\ ExecInit(<<>>)
    /\ DispIdle
    /\ NavIdle
    /\ DomIdle
    /\ PanelInit
    /\ ClickIdle
    /\ RecoveryIdle
    /\ ParseIdle
    /\ MergeIdle
    /\ \E step \in RetrySteps : RetryInit(step)

NextRetry ==
    \/ RetryAttemptFails
    \/ RetryAttemptSucceeds
    \/ RetryExhausted

\* the retry loop of withRetry for one step
SpecRetry == InitRetry /\ [][NextRetry]_vars

\* C26 -- linear back-off: with `delay` the step's retryDelayMs (1000 when
\* it has none) and `allowed` its retryCount (3 when it has none), the waits
\* so far are delay * 1, delay * 2, ..., one after each failed attempt that
\* is not the last allowed one; nothing is waited after the last allowed
\* attempt or after an attempt that succeeded, and a step without retryCount
\* is attempted 3 times before the loop ends.
C26_LinearBackoff ==
    LET delay == IF retryStep.retryDelayMs = None THEN 1000
                 ELSE retryStep.retryDelayMs[1]
        allowed == IF retryStep.retryCount = None THEN 3
                   ELSE retryStep.retryCount[1]
        failed == retryI - 1
    IN /\ failed <= allowed \/ failed = 0
       /\ Len(waits) = IF failed < allowed THEN failed
                       ELSE IF failed = 0 THEN 0 ELSE allowed - 1
       /\ \A n \in DOMAIN waits : waits[n] = delay * n
       /\ retryPc = "exhausted" => failed = allowed \/ allowed <= 0

\* a step with retryCount 4 and its own delay failed all four attempts: three
\* waits, the third three times the delay, none after the fourth failure
C26_Witness ==
    /\ retryStep = [retryCount |-> Some(4), retryDelayMs |-> Some(250)]
    /\ retryPc = "exhausted"
    /\ waits = <<250, 500, 750>>

\* a step with neither field: attempted 3 times, at 1000 ms and 2000 ms
C26_WitnessDefaults ==
    /\ retryStep = [retryCount |-> None, retryDelayMs |-> None]
    /\ retryPc = "exhausted"
    /\ retryI = 4
    /\ waits = <<1000, 2000>>

\* the second attempt succeeded: one wait, none after the success
C26_WitnessSuccess ==
    /\ retryPc = "returned"
    /\ retryI = 2
    /\ Len(waits) = 1

(* ----------------------------- handleNavigate ------------------------- *)

NavTabs == {1, 2}

\* the url of a navigate step: absent, or a value with its typeof
NavUrls ==
    {None, Some([typeof |-> "string", s |-> ""]),
     Some([typeof |-> "string", s |-> "https://a.example/"]),
     Some([typeof |-> "number", s |-> "7"])}

\* !step.url || typeof step.url !== 'string'
InvalidUrl(url) ==
    \/ url = None
    \/ url[1].typeof # "string"
    \/ url[1].s = ""

\* mutant: no safety timeout is set
SafetyTimer_Unset(now) == None

\* setTimeout(() => {...}, 10000)
SafetyTimer(now) == Some(now + NAVIGATE_TIMEOUT_MS)

\* resolve() of the awaited promise: the first call completes the await,
\* a later one has no effect
Resolve(pcNow) == IF pcNow = "waiting" THEN "returned" ELSE pcNow

\* the check of step.url
NavStart ==
    /\ navPc = "start"
    /\ navPc' = IF InvalidUrl(navStep.url) THEN "threw" ELSE "updating"
    /\ UNCHANGED <<navTabId, navStep, navListener, navTimers, navNow,
                   navLastEvent, navResolveCalls, navReturns, nonNavVars>>

\* await chrome.tabs.update resolves: the executor of the promise adds the
\* listener and sets the safety timeout
NavUpdateResolves ==
    /\ navPc = "updating"
    /\ navPc' = "waiting"
    /\ navListener' = TRUE
    /\ navTimers' = [navTimers EXCEPT !.safety = SafetyTimer(navNow)]
    /\ UNCHANGED <<navTabId, navStep, navNow, navLastEvent, navResolveCalls,
                   navReturns, nonNavVars>>

\* await chrome.tabs.update rejects (no such tab)
NavUpdateRejects ==
    /\ navPc = "updating"
    /\ navPc' = "threw"
    /\ UNCHANGED <<navTabId, navStep, navListener, navTimers, navNow,
                   navLastEvent, navResolveCalls, navReturns, nonNavVars>>

\* chrome.tabs.onUpdated fires for some tab: the listener, if registered,
\* acts on 'complete' of its own tab
TabUpdated ==
    /\ navPc \in {"updating", "waiting", "returned"}
    /\ \E updatedTabId \in NavTabs, status \in {"loading", "complete"} :
          /\ navLastEvent' = Some([tabId |-> updatedTabId, status |-> status])
          /\ IF navListener /\ updatedTabId = navTabId /\ status = "complete"
             THEN /\ navListener' = FALSE
                  /\ navTimers' = [navTimers EXCEPT
                         !.settle = Some(navNow + NAVIGATE_SETTLE_MS)]
             ELSE UNCHANGED <<navListener, navTimers>>
    /\ UNCHANGED <<navTabId, navStep, navPc, navNow, navResolveCalls,
                   navReturns, nonNavVars>>

\* setTimeout(resolve, 500) is due
SettleTimerFires ==
    /\ navTimers.settle = Some(navNow)
    /\ navTimers' = [navTimers EXCEPT !.settle = None]
    /\ navResolveCalls' = navResolveCalls + 1
    /\ navPc' = Resolve(navPc)
    /\ navReturns' = IF Resolve(navPc) # navPc THEN navReturns + 1
                     ELSE navReturns
    /\ UNCHANGED <<navTabId, navStep, navListener, navNow, navLastEvent,
                   nonNavVars>>

\* the safety timeout is due: removeListener, resolve()
SafetyTimerFires ==
    /\ navTimers.safety = Some(navNow)
    /\ navTimers' = [navTimers EXCEPT !.safety = None]
    /\ navListener' = FALSE
    /\ navResolveCalls' = navResolveCalls + 1
    /\ navPc' = Resolve(navPc)
    /\ navReturns' = IF Resolve(navPc) # navPc THEN navReturns + 1
                     ELSE navReturns
    /\ UNCHANGED <<navTabId, navStep, navNow, navLastEvent, nonNavVars>>

\* time passes while a timer is pending and none is due
NavTick ==
    /\ \E t \in DOMAIN navTimers : navTimers[t] # None
    /\ \A t \in DOMAIN navTimers :
          navTimers[t] # None => navTimers[t][1] > navNow
    /\ navNow' = navNow + NAVIGATE_SETTLE_MS
    /\ UNCHANGED <<navTabId, navStep, navPc, navListener, navTimers,
                   navLastEvent, navResolveCalls, navReturns, nonNavVars>>

InitNavigate ==
    /\ ExecInit(<<>>)
    /\ DispIdle
    /\ ClickIdle
    /\ RecoveryIdle
    /\ ParseIdle
    /\ MergeIdle
    /\ DomIdle
    /\ PanelInit
    /\ RetryIdle
    /\ \E tabId \in NavTabs, url \in NavUrls : NavInit(tabId, [url |-> url])

NextNavigate ==
    \/ NavStart
    \/ NavUpdateResolves
    \/ NavUpdateRejects
    \/ TabUpdated
    \/ SettleTimerFires
    \/ SafetyTimerFires
    \/ NavTick

SpecNavigate == InitNavigate /\ [][NextNavigate]_vars

\* chrome.tabs.update settles, timers fire when due and time passes; nothing
\* is assumed of the tab's events
FairSpecNavigate ==
    /\ SpecNavigate
    /\ WF_vars(NavStart)
    /\ WF_vars(NavUpdateResolves \/ NavUpdateRejects)
    /\ WF_vars(SettleTimerFires)
    /\ WF_vars(SafetyTimerFires)
    /\ WF_vars(NavTick)

\* C27 -- handleNavigate always completes, whether or not the tab ever
\* reports 'complete': once the promise is awaited it is resolved, no later
\* than when the safety timeout is due; the await completes at most once
\* however many times resolve is called; and once handleNavigate has returned
\* or thrown its listener is not registered on chrome.tabs.onUpdated.
C27_NavigateReturns ==
    /\ [](navReturns <= 1)
    /\ [](navPc \in {"returned", "threw"} => ~navListener)
    /\ [](navPc = "waiting" => navNow <= NAVIGATE_TIMEOUT_MS)
    /\ <>(navPc \in {"returned", "threw"})
    /\ (navPc = "waiting") ~> (navPc = "returned")

\* no event was ever dispatched and handleNavigate returned at 10000 ms
C27_Witness ==
    /\ navPc = "returned"
    /\ navLastEvent = None
    /\ navNow = NAVIGATE_TIMEOUT_MS
    /\ navResolveCalls = 1
    /\ ~navListener

\* both paths called resolve: returned once, at 'complete' + 500 ms, and the
\* safety timeout later had no effect
C27_WitnessBothPaths ==
    /\ navPc = "returned"
    /\ navResolveCalls = 2
    /\ navReturns = 1
    /\ navNow = NAVIGATE_TIMEOUT_MS
    /\ ~navListener

(* --------------------- the executePlan dispatcher --------------------- *)

\* the executePlan messages: with a requestId, an empty one or none; with a
\* plan or none; sent from a tab (a content script) or from the panel
ExecutePlanMessages ==
    [requestId : {Undefined, "", RequestId},
     plan : {None} \cup {Some(p) : p \in Plans},
     senderTabId : {None, Some(FirstTab)}]

\* what chrome.tabs.query({active: true, currentWindow: true}) resolves to:
\* no tab, a tab without id, a tab
ActiveTabResults == {<<>>, <<[id |-> None]>>, <<[id |-> Some(FirstTab)]>>}

\* activeTab?.id of const [activeTab] = await chrome.tabs.query(...)
ActiveTabId(tabs) == IF tabs = <<>> THEN None ELSE tabs[1].id

\* the error event of the dispatcher
DispatchError(errorMsg) ==
    PlanStepResultMsg(TRUE, -1, StepResult(FALSE, errorMsg, None))

\* mutant: the plan is not looked at
CanExecute_TabOnly(tabId, messagePlan) == tabId # None

\* if (targetTabId && message.plan)
CanExecute(tabId, messagePlan) == tabId # None /\ messagePlan # None

\* the state of executePlanSteps other than the messages sent
execButSent == <<plan, pc, formattedPlan, stepIdx, attempts, i, lastError,
                 rejection, candIdx, fallbackSucceeded, lastFallbackResult,
                 stepResultPayload, overallSuccess, finalErrorMessage,
                 invokedSteps, recoveredSteps, outcomes, yielded, inProgress>>

\* the listener's synchronous part: without requestId it answers through
\* sendResponse and returns; otherwise the async block starts with the
\* sender's tab, if there is one
DispatchReceive ==
    /\ dispPc = "received"
    /\ IF ~Truthy(dispMessage.requestId)
       THEN /\ dispPc' = "responded"
            /\ UNCHANGED targetTabId
       ELSE /\ targetTabId' = dispMessage.senderTabId
            /\ dispPc' = IF dispMessage.senderTabId = None THEN "query"
                         ELSE "check"
    /\ UNCHANGED <<dispMessage, activeTabQuery, execVars, nonDispVars>>

\* await chrome.tabs.query resolves: the active tab's id becomes the target,
\* or the error event is sent and the block returns
DispatchQuery ==
    /\ dispPc = "query"
    /\ \E tabs \in ActiveTabResults :
          /\ activeTabQuery' = Returned(tabs)
          /\ IF ActiveTabId(tabs) # None
             THEN /\ targetTabId' = ActiveTabId(tabs)
                  /\ dispPc' = "check"
                  /\ UNCHANGED sent
             ELSE /\ sent' = Append(sent, DispatchError(
                      "Could not determine active tab ID. Ensure a tab is active in the current window."))
                  /\ dispPc' = "failed"
                  /\ UNCHANGED targetTabId
    /\ UNCHANGED <<dispMessage, execButSent, nonDispVars>>

\* "Check we have everything needed": executePlanSteps is called, or the
\* error event is sent
DispatchCheck ==
    /\ dispPc = "check"
    /\ IF CanExecute(targetTabId, dispMessage.plan)
       THEN /\ dispPc' = "started"
            /\ UNCHANGED sent
       ELSE /\ sent' = Append(sent,
                   DispatchError("Missing targetTabId or plan data."))
            /\ dispPc' = "failed"
    /\ UNCHANGED <<dispMessage, targetTabId, activeTabQuery, execButSent,
                   nonDispVars>>

\* executePlanSteps runs once the dispatcher has called it
DispatchedRun ==
    /\ dispPc = "started"
    /\ Next

InitDispatch ==
    /\ \E message \in ExecutePlanMessages :
          /\ DispInit(message)
          /\ ExecInit(IF message.plan = None THEN <<>> ELSE message.plan[1])
    /\ ClickIdle
    /\ RecoveryIdle
    /\ ParseIdle
    /\ MergeIdle
    /\ DomIdle
    /\ PanelInit
    /\ RetryIdle
    /\ NavIdle

NextDispatch ==
    \/ DispatchReceive
    \/ DispatchQuery
    \/ DispatchCheck
    \/ DispatchedRun

\* the background listener for one executePlan message, and the execution it
\* starts
SpecDispatch == InitDispatch /\ [][NextDispatch]_vars

\* no target tab can be resolved: the sender has none and the query gave none
NoTargetTab ==
    /\ dispMessage.senderTabId = None
    /\ activeTabQuery # NotSettled
    /\ ActiveTabId(activeTabQuery.value) = None

\* executePlanSteps has not been called
NotExecuted ==
    /\ dispPc # "started"
    /\ pc = "start"
    /\ invokedSteps = {}

\* C37 -- dispatcher error paths: an executePlan message without requestId
\* starts no execution and no event is ever sent for it; one with a requestId
\* but without a resolvable target tab, or without a plan, starts no
\* execution either, never gets a planReceived, and once the dispatcher is
\* through the only event sent is one planStepResult with isFinal true,
\* success false and stepId -1.
C37_DispatcherErrorPaths ==
    /\ ~Truthy(dispMessage.requestId) =>
           /\ NotExecuted
           /\ sent = <<>>
           /\ dispPc \in {"received", "responded"}
    /\ (Truthy(dispMessage.requestId)
        /\ (NoTargetTab \/ dispMessage.plan = None)) =>
           /\ NotExecuted
           /\ dispPc \in {"received", "query", "check", "failed"}
           /\ sent = <<>> <=> dispPc # "failed"
           /\ dispPc = "failed" =>
                  /\ Len(sent) = 1
                  /\ sent[1].type = "planStepResult"
                  /\ sent[1].isFinal
                  /\ sent[1].stepId = -1
                  /\ ~sent[1].result.success

\* the panel sent a plan, no tab is active: one error event, no execution
C37_Witness ==
    /\ dispMessage.requestId = RequestId
    /\ dispMessage.plan # None
    /\ NoTargetTab
    /\ dispPc = "failed"
    /\ Len(sent) = 1

\* a message with a requestId and a tab but no plan
C37_WitnessNoPlan ==
    /\ dispMessage.requestId = RequestId
    /\ dispMessage.plan = None
    /\ targetTabId # None
    /\ dispPc = "failed"
    /\ sent[1].result.error = "Missing targetTabId or plan data."

\* a message without requestId was answered through sendResponse
C37_WitnessNoRequestId ==
    /\ dispMessage.requestId = Undefined
    /\ dispMessage.plan # None
    /\ dispPc = "responded"
    /\ sent = <<>>

====
